---- MODULE Spec2Model ----
(***************************************************************************)
(* Model of the Interactive Alignment Toolkit panel                        *)
(* (src/src/components/alignment/panel/panel.alignment.jsx) and of the     *)
(* toolkit menu (src/src/components/alignment/menu.alignment.jsx).         *)
(*                                                                         *)
(* A panel is a React component.  Its state (status, image, source,        *)
(* properties, pointer, methods) lives in the toolkit provider; a handler  *)
(* queues state updates which React commits together when the handler     *)
(* returns, so one action of the model is one handler (or one flush of an  *)
(* effect, or one asynchronous callback) and the primed variables are the  *)
(* committed state: of several setStatus calls in one handler the last one *)
(* wins.  An effect runs after the commit that changed its dependency, and *)
(* before any further event is handled; its cleanup is the one installed   *)
(* by the previous run, and reads the values of that earlier render.       *)
(***************************************************************************)
EXTENDS Integers, Sequences, FiniteSets, TLC

VARIABLES
    status,     \* panel.status of each panel
    image,      \* panel.image: the current raster, or NULL
    source,     \* panel.source: the original raster, or NULL
    layer,      \* the raster held by the hidden image canvas (imageLayer), or NULL
    props,      \* panel.properties (the fields the panel code reads and writes)
    pointer,    \* panel.pointer
    methods,    \* panel.methods: the bound mouse handlers
    aligned,    \* the component's `aligned` flag
    mode,       \* iat.mode
    message,    \* the last value given to iat.setMessage
    effStatus,  \* panel.status of the render whose status effect is installed
    modeRan,    \* iat.mode of the render whose mode effect last ran
    bound,      \* panel.image / panel.status of the render that bound the handlers
    pending,    \* loads handed to loadImage whose callback has not fired
    exporting,  \* blob exports whose callback has not fired, per panel
    nextId,     \* number of loads started so far
    overlayLayer1, \* what is drawn on the panel's first overlay canvas
    magnifierLayer, \* what the magnifier canvas shows: no preview, or one at a position
    editor,     \* ComparisonEditor: its state, its reference prop and its requests
    slideshow,  \* Slideshow: the number of items and selectedIndex
    img,        \* Image: the url and scale props, src and error
    latest,     \* history: the load most recently requested on a panel (0: none)
    last        \* history: the operation that produced the current state

vars == <<status, image, source, layer, props, pointer, methods, aligned, mode, message,
          effStatus, modeRan, bound, pending, exporting, nextId, overlayLayer1, latest,
          magnifierLayer, editor, slideshow, img, last>>

\* The state of the alignment panels, and that of the other components.
PanelVars == <<status, image, source, layer, props, pointer, methods, aligned, mode,
               message, effStatus, modeRan, bound, pending, exporting, nextId,
               overlayLayer1, latest, magnifierLayer>>
Widgets == <<editor, slideshow, img>>

\* ------------------------------------------------------------------ bounds

\* Loads started in one behaviour.
MaxLoads == 3
\* Blob exports in flight on one panel.
MaxExports == 1
\* The fixed on-screen canvas (base_dims).
BaseW == 4
BaseH == 4
\* iat.options.controlPtMax and iat.options.ptrRadius.
controlPtMax == 3
ptrRadius == 1

Panels == {"panel1", "panel2"}
Other(p) == IF p = "panel1" THEN "panel2" ELSE "panel1"

Statuses == {"empty", "load", "loading", "loaded", "update", "downloading", "error"}
Modes == {"pan", "select", "crop"}

\* The size of the image the id-th load decodes: the first fits the canvas
\* exactly, the second is twice the canvas, the third is narrower than the
\* canvas, and so on in turn.
SizeOf(id) ==
    CASE id % 3 = 1 -> [w |-> BaseW, h |-> BaseH]
      [] id % 3 = 2 -> [w |-> 2 * BaseW, h |-> 2 * BaseH]
      [] OTHER -> [w |-> BaseW \div 2, h |-> BaseH]

\* ------------------------------------------------------------------ values

NULL == [id |-> 0, tag |-> "null"]
Raster(id, tag) == [id |-> id, tag |-> tag]

NoPoint == [x |-> -1, y |-> -1, set |-> FALSE]
Point(x, y) == [x |-> x, y |-> y]
Anchor(x, y) == [x |-> x, y |-> y, set |-> TRUE]
EmptyBox == [x |-> 0, y |-> 0, w |-> 0, h |-> 0]

Min(a, b) == IF a < b THEN a ELSE b
Max(a, b) == IF a > b THEN a ELSE b
Abs(a) == IF a < 0 THEN -a ELSE a

\* A division that truncates where Math.round rounds to the nearest integer.
RoundDiv_floor(n, d) == n \div d

\* Math.round(n / d) for d > 0: the nearest integer, halves towards +infinity.
RoundDiv(n, d) == (2 * n + d) \div (2 * d)

\* The last of the values queued by the setStatus calls of one handler, or the
\* committed status when the handler queued none.
Commit(old, queue) == IF queue = <<>> THEN old ELSE queue[Len(queue)]

\* ------------------------------------------------------- scaler.alignment

\* scaleToFit(srcW, srcH, maxW, maxH): the largest rectangle of the source's
\* aspect ratio that fits in (maxW, maxH).
scaleToFit(srcW, srcH, maxW, maxH) ==
    IF srcW <= 0 \/ srcH <= 0 THEN [w |-> 0, h |-> 0]
    ELSE IF maxW * srcH <= maxH * srcW
         THEN [w |-> maxW, h |-> RoundDiv(srcH * maxW, srcW)]
         ELSE [w |-> RoundDiv(srcW * maxH, srcH), h |-> maxH]

\* getScale(fromRect, toRect): the per-axis ratio toRect / fromRect, kept as a
\* fraction [xn/xd, yn/yd].
getScale(fromRect, toRect) ==
    [xn |-> toRect.w, xd |-> fromRect.w, yn |-> toRect.h, yd |-> fromRect.h]

\* Math.round(scale * v) on one axis.
ScaleX(scale, v) == RoundDiv(scale.xn * v, scale.xd)
ScaleY(scale, v) == RoundDiv(scale.yn * v, scale.yd)

\* scalePoint(pt, fromRect, toRect): getScale applied to a point.
scalePoint(pt, fromRect, toRect) ==
    LET s == getScale(fromRect, toRect)
    IN  Point(ScaleX(s, pt.x), ScaleY(s, pt.y))

\* inRange(px, py, cx, cy, radius): Euclidean proximity.
inRange(px, py, cx, cy, radius) ==
    (px - cx) * (px - cx) + (py - cy) * (py - cy) <= radius * radius

\* -------------------------------------------------------------- overlay canvas
\* What an overlay canvas shows: nothing ("clear"), control points ("points") or
\* a crop rectangle ("box"). A draw replaces what the canvas showed.

\* overlayLayer.clear().
clear == "clear"

\* overlayLayer.drawControlPoints(pts).
drawControlPoints(pts) == IF pts = <<>> THEN "clear" ELSE "points"

\* overlayLayer.drawBoundingBox(x, y, w, h).
drawBoundingBox(w, h) == IF w = 0 /\ h = 0 THEN "clear" ELSE "box"

\* ----------------------------------------------------------- magnifier canvas
\* What the magnifier canvas shows: nothing, or the preview of the region
\* around a canvas position.

\* magnifierLayer.clear().
NoPreview == NoPoint

\* magnifierLayer.magnify(canvas, panel): the preview around the panel's cursor.
magnify(ptr) == Anchor(ptr.x, ptr.y)

\* useEffect(..., [pointer.x, pointer.y, pointer.magnify]): when one of them
\* changed, the preview is drawn if pointer.magnify is set and cleared if not.
MagnifierEffect(shown, old, new) ==
    IF <<new.x, new.y, new.magnify>> = <<old.x, old.y, old.magnify>> THEN shown
    ELSE IF new.magnify THEN magnify(new)
    ELSE NoPreview

\* ------------------------------------------------------------ provider state

\* The properties of an empty panel.
InitProps ==
    [file |-> 0,
     source_dims |-> [w |-> 0, h |-> 0],
     image_dims |-> [w |-> 0, h |-> 0],
     render_dims |-> [x |-> 0, y |-> 0, w |-> 0, h |-> 0],
     base_dims |-> [w |-> BaseW, h |-> BaseH],
     overlay |-> FALSE]

\* The pointer of an empty panel.
InitPointer ==
    [x |-> 0, y |-> 0, selected |-> NoPoint, points |-> <<>>,
     selectBox |-> EmptyBox, index |-> -1, magnify |-> FALSE]

\* The handler bundles the panel binds (onMouseDown, onMouseUp, onMouseMove,
\* onMouseOut).
PanBundle ==
    [down |-> "_startPanImage", up |-> "_endPanImage",
     move |-> "_panImage", out |-> "_endPanImage"]
SelectBundle ==
    [down |-> "_selectControlPoint", up |-> "_deselectControlPoint",
     move |-> "_moveControlPoint", out |-> "_deselectControlPoint"]
CropBundle ==
    [down |-> "_startCropBox", up |-> "_endCropBox",
     move |-> "_selectCropBox", out |-> "_endCropBox"]
MoveBoxBundle ==
    [down |-> "_startCropBox", up |-> "_endCropBox",
     move |-> "_moveCropBox", out |-> "_endCropBox"]

\* panel.setMethods(m): the new bundle replaces the bound handlers.
setMethods(old, m) == m

\* An effect whose dependency changed in the last commit has not run yet.
StatusEffectPending(p) == status[p] # effStatus[p]
ModeEffectPending(p) == mode # modeRan[p]
\* The operations still followed: last.left counts them down where a
\* specification starts with a count, and is Unbounded where it does not.
Unbounded == 0 - 1
Within == last.left # 0

\* Every effect has run, so the next event can be handled (and is followed).
Settled ==
    /\ \A p \in Panels : ~StatusEffectPending(p) /\ ~ModeEffectPending(p)
    /\ Within

\* The history record a specification starts with.
FirstOp(op, p, arg, id, left) ==
    [op |-> op, p |-> p, arg |-> arg, id |-> id, threw |-> FALSE,
     size |-> [w |-> 0, h |-> 0], acquired |-> {}, released |-> <<>>, left |-> left]

\* The history record of an operation: its name, its panel, an outcome or
\* argument, and the load it belongs to (0: none).
OpOf(op, p, arg, id) ==
    FirstOp(op, p, arg, id, IF last.left > 0 THEN last.left - 1 ELSE last.left)
\* The same, of an operation in which a step threw.
Threw(rec, fails) == [rec EXCEPT !.threw = fails]
\* The same, of an operation that was handed a raster of the given size.
Sized(rec, size) == [rec EXCEPT !.size = size]
\* The same, of an operation that acquired and released external matrices.
Matrices(rec, acquired, released) ==
    [rec EXCEPT !.acquired = acquired, !.released = released]
Op(op, p, arg) == OpOf(op, p, arg, 0)

\* ---------------------------------------------------------- ComparisonEditor
\* The editor holds the _isMounted ref, the error and loaded states, the
\* reference prop (0: not mounted yet), the requests in flight (each named by
\* the reference it was made for), the reference whose captures are stored as
\* availableCaptures and the one whose selection was last given to onSelect.

References == {1, 2}

InitEditor ==
    [mounted |-> FALSE, reference |-> 0, error |-> FALSE, loaded |-> FALSE,
     available |-> 0, selected |-> 0, requests |-> {}]

\* The body of useEffect(..., [reference]): the ref is set, and the captures
\* are requested unless the editor has loaded or failed.
EditorEffect(e) ==
    [e EXCEPT !.mounted = TRUE,
              !.requests = IF ~e.error /\ ~e.loaded /\ e.reference # 0
                           THEN @ \cup {e.reference} ELSE @]

\* The cleanup of the effect.
EditorCleanup(e) == [e EXCEPT !.mounted = FALSE]

\* The .then callback of the request made for reference r. outcome: "error" (no
\* response, or one with an error), "none" (no capture available) or "ok".
EditorResponse(e, r, outcome) ==
    LET left == [e EXCEPT !.requests = @ \ {r}]
    IN  IF ~e.mounted THEN left
        ELSE IF outcome = "error" THEN [left EXCEPT !.error = TRUE]
        ELSE [left EXCEPT !.error = (outcome = "none") \/ @, !.loaded = TRUE,
                          !.selected = r, !.available = r]

\* ------------------------------------------------------------------ Slideshow
\* The slideshow holds the length of the items prop, selectedIndex and whether
\* the autoslide prop is set.

\* Largest number of items.
MaxItems == 4

\* The value of an arithmetic expression that is not a number.
NaN == 0 - 1

InitSlideshow == [items |-> 0, selectedIndex |-> 0, autoslide |-> FALSE]

\* (a + b) % n as JavaScript computes it for a >= 0: not a number when a is
\* not one or n is 0.
Remainder(a, b, n) == IF a = NaN \/ n = 0 THEN NaN ELSE (a + b) % n

\* _prevSlide().
_prevSlide(s) == [s EXCEPT !.selectedIndex = Remainder(@, s.items - 1, s.items)]

\* _nextSlide(), and the callback of the autoslide timer.
_nextSlide(s) == [s EXCEPT !.selectedIndex = Remainder(@, 1, s.items)]

\* ---------------------------------------------------------------------- Image
\* The image holds the url and scale props and the src and error states. A url
\* is a string ("a", "b"), missing ("none"), or an object with an entry for the
\* scale "medium" that is a string ("objA", "objB") or empty ("objEmpty").

fallbackSrc == "fallback"
Urls == {"a", "b", "none", "objA", "objB", "objEmpty"}
Scales == {"", "medium", "thumb"}

\* url = fallbackSrc for a null or empty url.
UrlProp(url) == IF url = "none" THEN fallbackSrc ELSE url

\* url.hasOwnProperty(scale) && scale ? url[scale] : url
SrcOf(url, scale) ==
    IF UrlProp(url) \in {"objA", "objB", "objEmpty"} /\ scale = "medium"
    THEN CASE url = "objA" -> "a_medium"
           [] url = "objB" -> "b_medium"
           [] OTHER -> ""
    ELSE UrlProp(url)

\* !src || (typeof src === 'object' && Object.keys(src).length === 0)
InvalidSrc(src) == src = ""

\* The effect on [url, scale, error]: the source of the url is set unless an
\* error was reported.
UpdateSrc(error, url, scale, src) == IF ~error THEN SrcOf(url, scale) ELSE src

\* One commit of the component: the effects whose dependencies changed since
\* the state old run on the state new, in their order, with the values of new;
\* of the updates they queue for a state the last one is kept.
ImageCommit(old, new, mount) ==
    LET validity == mount \/ new.src # old.src
        update == mount \/ new.url # old.url \/ new.scale # old.scale
                        \/ new.error # old.error
        rejected == validity /\ InvalidSrc(new.src)
        src1 == IF rejected THEN fallbackSrc ELSE new.src
    IN  [new EXCEPT !.src = IF update THEN UpdateSrc(new.error, new.url, new.scale, src1)
                            ELSE src1,
                    !.error = rejected \/ @]

\* The commits that follow a change of state, until no effect has anything
\* left to run.
RECURSIVE ImageSettle(_, _, _)
ImageSettle(old, new, mount) ==
    LET next == ImageCommit(old, new, mount)
    IN  IF next = new THEN new ELSE ImageSettle(new, next, FALSE)

\* The component as mounted with the props url and scale.
ImageMount(url, scale) ==
    LET first == [url |-> url, scale |-> scale, src |-> SrcOf(url, scale),
                  error |-> FALSE]
    IN  ImageSettle(first, first, TRUE)

InitImage == ImageMount("none", "")

\* -------------------------------------------------------------------- Init

Init ==
    /\ status = [p \in Panels |-> "empty"]
    /\ image = [p \in Panels |-> NULL]
    /\ source = [p \in Panels |-> NULL]
    /\ layer = [p \in Panels |-> NULL]
    /\ props = [p \in Panels |-> InitProps]
    /\ pointer = [p \in Panels |-> InitPointer]
    /\ methods = [p \in Panels |-> PanBundle]
    /\ aligned = [p \in Panels |-> FALSE]
    /\ mode = "pan"
    /\ message = "none"
    /\ effStatus = [p \in Panels |-> "empty"]
    /\ modeRan = [p \in Panels |-> "pan"]
    /\ bound = [p \in Panels |-> [image |-> FALSE, status |-> "empty"]]
    /\ pending = {}
    /\ exporting = [p \in Panels |-> 0]
    /\ nextId = 0
    /\ overlayLayer1 = [p \in Panels |-> clear]
    /\ latest = [p \in Panels |-> 0]
    /\ magnifierLayer = [p \in Panels |-> NoPreview]
    /\ editor = InitEditor /\ slideshow = InitSlideshow /\ img = InitImage
    /\ last = FirstOp("init", "panel1", "none", 0, Unbounded)

\* ------------------------------------------------------------- panel helpers

\* imageLayer.current.getImageData(): the pixels of the image canvas; a cleared
\* canvas still yields (blank) image data.
getImageData(l) == IF l = NULL THEN Raster(0, "blank") ELSE l

\* A render that does not store the pixels of the image canvas as panel.image.
_renderImage_stale(p, l, viewDims, curRender, fails) ==
    [image |-> image[p], render_dims |-> IF fails THEN curRender ELSE viewDims,
     q |-> IF fails THEN <<"error">> ELSE <<>>]

\* _renderImage(viewDims, imageDims) on a panel whose image canvas holds l:
\* draws, stores the canvas pixels as panel.image and the view as render_dims;
\* a throw is caught and queues setStatus('error').
\* [image, render_dims, q]: the new image, the new render_dims, the status queue.
_renderImage(p, l, viewDims, curRender, fails) ==
    IF fails
    THEN [image |-> image[p], render_dims |-> curRender, q |-> <<"error">>]
    ELSE [image |-> getImageData(l), render_dims |-> viewDims, q |-> <<>>]

\* A merge that also takes the image's dimensions for the source's.
update_source(old, new) ==
    [f \in DOMAIN old |-> IF f \in DOMAIN new THEN new[f]
                          ELSE IF f = "source_dims"
                          THEN [w |-> old.image_dims.w, h |-> old.image_dims.h]
                          ELSE old[f]]

\* panel.update(props): merges the given fields into panel.properties.
update(old, new) == [f \in DOMAIN old |-> IF f \in DOMAIN new THEN new[f] ELSE old[f]]

\* The props the image loader returns with decoded data of the given size.
LoaderProps(id, size) ==
    [file |-> id, source_dims |-> size, image_dims |-> size,
     base_dims |-> [w |-> BaseW, h |-> BaseH]]

\* _init(props): the loader's props, with render_dims set to the view canvas.
_init(old, lprops) ==
    update(old, [file |-> lprops.file, source_dims |-> lprops.source_dims,
                 image_dims |-> lprops.image_dims, base_dims |-> lprops.base_dims,
                 render_dims |-> [x |-> 0, y |-> 0, w |-> BaseW, h |-> BaseH]])

\* A fit that is drawn one pixel off the canvas origin.
Fit_shifted(dims, base) ==
    LET d == scaleToFit(dims.w, dims.h, base.w, base.h)
    IN  [x |-> 1, y |-> 1, w |-> d.w, h |-> d.h]

\* A view that fills the canvas whatever the proportions of the image.
Fit_stretched(dims, base) == [x |-> 0, y |-> 0, w |-> base.w, h |-> base.h]

\* The view a fitted image is rendered to: scaleToFit at the canvas origin.
Fit(dims, base) ==
    LET d == scaleToFit(dims.w, dims.h, base.w, base.h)
    IN  [x |-> 0, y |-> 0, w |-> d.w, h |-> d.h]

\* A reset of the select box that drops the control points with it.
resetSelectBox_points(ptr) == [ptr EXCEPT !.selectBox = EmptyBox, !.points = <<>>]

\* pointer.resetSelectBox().
resetSelectBox(ptr) == [ptr EXCEPT !.selectBox = EmptyBox]

\* _resetImage(): what it leaves in the panel.
\* 916-959: image := source; select box reset; without a source it returns;
\* otherwise the source is rendered, image_dims := source_dims, the status is
\* set to loaded and the aligned flag cleared.
_resetImage(p, fails) ==
    LET ptr == resetSelectBox(pointer[p])
        view == Fit(props[p].source_dims, props[p].base_dims)
        r == _renderImage(p, source[p], view, props[p].render_dims, fails)
    IN  IF source[p] = NULL
        THEN [image |-> source[p], layer |-> layer[p], props |-> props[p],
              pointer |-> ptr, q |-> <<>>, message |-> message, aligned |-> aligned[p],
              overlay |-> overlayLayer1[p]]
        ELSE [image |-> IF fails THEN source[p] ELSE r.image,
              layer |-> source[p],
              props |-> update(props[p], [image_dims |-> props[p].source_dims,
                                          render_dims |-> view]),
              pointer |-> ptr,
              q |-> r.q \o <<"loaded">>,
              message |-> "resetSuccess",
              aligned |-> FALSE,
              overlay |-> drawControlPoints(pointer[p].points)]

\* ------------------------------------------------------- status transitions

\* A collaborator outside the panel (the navigator) asks for a load by setting
\* the status of an empty panel to 'load'.
RequestLoad(p) ==
    /\ Settled
    /\ status[p] = "empty"
    /\ nextId < MaxLoads
    /\ status' = [status EXCEPT ![p] = "load"]
    /\ last' = Op("requestLoad", p, "none")
    /\ UNCHANGED overlayLayer1
    /\ UNCHANGED <<image, source, layer, props, pointer, methods, aligned, mode, message,
                   effStatus, modeRan, bound, pending, exporting, nextId, latest>>
    /\ UNCHANGED magnifierLayer
    /\ UNCHANGED Widgets

\* A collaborator sets the status of a loaded panel to 'update'.
RequestUpdate(p) ==
    /\ Settled
    /\ status[p] = "loaded"
    /\ status' = [status EXCEPT ![p] = "update"]
    /\ last' = Op("requestUpdate", p, "none")
    /\ UNCHANGED overlayLayer1
    /\ UNCHANGED <<image, source, layer, props, pointer, methods, aligned, mode, message,
                   effStatus, modeRan, bound, pending, exporting, nextId, latest>>
    /\ UNCHANGED magnifierLayer
    /\ UNCHANGED Widgets

\* The cleanup installed by the previous run of the status effect: it reads the
\* status of that earlier render.
StatusCleanup(old) == IF old = "empty" \/ old = "update" THEN <<"loaded">> ELSE <<>>

\* useEffect(..., [panel.status]): the previous run's cleanup, then the body.
StatusEffect(p, fails) ==
    /\ StatusEffectPending(p)
    /\ effStatus' = [effStatus EXCEPT ![p] = status[p]]
    /\ IF status[p] = "load"
       THEN \* _loadImage(panel.properties)
            /\ nextId < MaxLoads
            /\ ~fails
            /\ status' = [status EXCEPT ![p] =
                            Commit(status[p], StatusCleanup(effStatus[p]) \o <<"loading">>)]
            /\ nextId' = nextId + 1
            /\ pending' = pending \cup {[id |-> nextId + 1, p |-> p]}
            /\ latest' = [latest EXCEPT ![p] = nextId + 1]
            /\ UNCHANGED <<image, layer, props>>
       ELSE IF status[p] = "update"
       THEN \* _updateImage(); panel.setStatus('loaded')
            LET view == Fit(props[p].source_dims, props[p].base_dims)
                r == _renderImage(p, image[p], view, props[p].render_dims, fails)
            IN  /\ status' = [status EXCEPT ![p] =
                                Commit(status[p], StatusCleanup(effStatus[p]) \o r.q
                                                  \o <<"loaded">>)]
                /\ layer' = [layer EXCEPT ![p] = image[p]]
                /\ image' = [image EXCEPT ![p] = r.image]
                /\ props' = [props EXCEPT ![p].render_dims = r.render_dims]
                /\ UNCHANGED <<nextId, pending, latest>>
       ELSE /\ ~fails
            /\ status' = [status EXCEPT ![p] =
                            Commit(status[p], StatusCleanup(effStatus[p]))]
            /\ UNCHANGED <<image, layer, props, nextId, pending, latest>>
    /\ last' = Threw(Op("statusEffect", p, effStatus[p]), fails)
    /\ UNCHANGED overlayLayer1
    /\ UNCHANGED <<source, pointer, methods, aligned, mode, message, modeRan, bound,
                   exporting>>
    /\ UNCHANGED magnifierLayer
    /\ UNCHANGED Widgets

\* _loadImage(props), called directly (LoadButton's loader, the panel menu's load).
LoadImage(p) ==
    /\ Settled
    /\ nextId < MaxLoads
    /\ status' = [status EXCEPT ![p] = "loading"]
    /\ nextId' = nextId + 1
    /\ pending' = pending \cup {[id |-> nextId + 1, p |-> p]}
    /\ latest' = [latest EXCEPT ![p] = nextId + 1]
    /\ last' = Op("load", p, "none")
    /\ UNCHANGED overlayLayer1
    /\ UNCHANGED <<image, source, layer, props, pointer, methods, aligned, mode, message,
                   effStatus, modeRan, bound, exporting>>
    /\ UNCHANGED magnifierLayer
    /\ UNCHANGED Widgets

\* What the loader hands to the callback of _loadImage.
Responses == {"ok", "error", "errorNoProps", "empty"}

\* The callback given to loadImage in _loadImage.
LoadCallback(l, resp, fails) ==
    /\ Settled
    /\ l \in pending
    /\ pending' = pending \ {l}
    /\ last' = Threw(OpOf("loadCallback", l.p, resp, l.id), fails)
    /\ UNCHANGED overlayLayer1
    /\ LET p == l.p
       IN  IF resp = "errorNoProps" \/ resp = "empty"
           THEN \* if (!props) return
                /\ ~fails
                /\ UNCHANGED <<status, image, source, layer, props, message>>
           ELSE IF resp = "error"
           THEN /\ ~fails
                /\ status' = [status EXCEPT ![p] = "empty"]
                /\ message' = "loadError"
                /\ UNCHANGED <<image, source, layer, props>>
           ELSE LET data == Raster(l.id, "orig")
                    size == SizeOf(l.id)
                    inited == _init(props[p], LoaderProps(l.id, size))
                    view == Fit(size, inited.base_dims)
                    r == _renderImage(p, data, view, inited.render_dims, fails)
                IN  /\ source' = [source EXCEPT ![p] = data]
                    /\ layer' = [layer EXCEPT ![p] = data]
                    /\ image' = [image EXCEPT ![p] = r.image]
                    /\ props' = [props EXCEPT ![p] =
                                    [inited EXCEPT !.render_dims = r.render_dims]]
                    /\ status' = [status EXCEPT ![p] =
                                    Commit(status[p], r.q \o <<"loaded">>)]
                    /\ UNCHANGED message
    /\ UNCHANGED <<pointer, methods, aligned, mode, effStatus, modeRan, bound, exporting,
                   nextId, latest>>
    /\ UNCHANGED magnifierLayer
    /\ UNCHANGED Widgets

\* panel.reset(): clears the panel's buffers, properties and pointer.
\* _clearOverlay(): clears both overlays and the control points.
\* _removeImage().
RemoveImage(p) ==
    /\ Settled
    /\ status' = [status EXCEPT ![p] = "empty"]
    /\ image' = [image EXCEPT ![p] = NULL]
    /\ source' = [source EXCEPT ![p] = NULL]
    /\ layer' = [layer EXCEPT ![p] = NULL]
    /\ props' = [props EXCEPT ![p] = InitProps]
    /\ pointer' = [pointer EXCEPT ![p] = InitPointer]
    /\ magnifierLayer' = [magnifierLayer EXCEPT ![p] =
                             MagnifierEffect(@, pointer[p], InitPointer)]
    /\ latest' = [latest EXCEPT ![p] = 0]
    /\ overlayLayer1' = [overlayLayer1 EXCEPT ![p] = clear]
    /\ last' = Op("remove", p, "none")
    /\ UNCHANGED <<methods, aligned, mode, message, effStatus, modeRan, bound, pending,
                   exporting, nextId>>
    /\ UNCHANGED Widgets

\* _resetImage(), from the panel menu.
ResetImage(p, fails) ==
    /\ Settled
    /\ fails => source[p] # NULL
    /\ LET r == _resetImage(p, fails)
       IN  /\ image' = [image EXCEPT ![p] = r.image]
           /\ layer' = [layer EXCEPT ![p] = r.layer]
           /\ props' = [props EXCEPT ![p] = r.props]
           /\ pointer' = [pointer EXCEPT ![p] = r.pointer]
           /\ status' = [status EXCEPT ![p] = Commit(status[p], r.q)]
           /\ message' = r.message
           /\ aligned' = [aligned EXCEPT ![p] = r.aligned]
           /\ overlayLayer1' = [overlayLayer1 EXCEPT ![p] = r.overlay]
    /\ last' = Threw(Op("reset", p, image[p].tag), fails)
    /\ UNCHANGED <<source, methods, mode, effStatus, modeRan, bound, pending, exporting,
                   nextId, latest>>
    /\ UNCHANGED magnifierLayer
    /\ UNCHANGED Widgets

\* _downloadImage({ext, quality, type}), offered by the panel menu for a panel
\* that holds an image.
DownloadImage(p, fails) ==
    /\ Settled
    /\ image[p] # NULL
    /\ exporting[p] < MaxExports
    /\ status' = [status EXCEPT ![p] = IF fails THEN "error" ELSE "downloading"]
    /\ exporting' = [exporting EXCEPT ![p] = IF fails THEN @ ELSE @ + 1]
    /\ last' = Threw(Op("download", p, "none"), fails)
    /\ UNCHANGED overlayLayer1
    /\ UNCHANGED <<image, source, layer, props, pointer, methods, aligned, mode, message,
                   effStatus, modeRan, bound, pending, nextId, latest>>
    /\ UNCHANGED magnifierLayer
    /\ UNCHANGED Widgets

\* The blob callback of _downloadImage.
DownloadCallback(p) ==
    /\ Settled
    /\ exporting[p] > 0
    /\ exporting' = [exporting EXCEPT ![p] = @ - 1]
    /\ status' = [status EXCEPT ![p] = "loaded"]
    /\ last' = Op("downloadCallback", p, "none")
    /\ UNCHANGED overlayLayer1
    /\ UNCHANGED <<image, source, layer, props, pointer, methods, aligned, mode, message,
                   effStatus, modeRan, bound, pending, nextId, latest>>
    /\ UNCHANGED magnifierLayer
    /\ UNCHANGED Widgets

\* ---------------------------------------------------------------------- resize

\* The steps of _resizeImage that can throw, in the order they run.
ResizeSteps == <<"imread", "mat", "resize", "imageData", "load", "update">>
StepNo(step) == CHOOSE i \in 1..Len(ResizeSteps) : ResizeSteps[i] = step

\* The step of _resizeImage was passed without a throw at the given step
\* ("none": nothing throws).
Passed(step, at) == at = "none" \/ StepNo(step) < StepNo(at)

\* _resizeImage({base_dims, image_dims}), from the panel menu, with the
\* panel's own base_dims.
\* size: the new image_dims; at: the step that throws, or "none".
ResizeImage(p, size, at) ==
    /\ Settled
    /\ LET resized == Raster(image[p].id, "resized")
           acquired == (IF Passed("imread", at) THEN {"src"} ELSE {})
                       \cup (IF Passed("mat", at) THEN {"dst"} ELSE {})
           released == IF at = "none" THEN <<"src", "dst">> ELSE <<>>
       IN  \* _clearOverlay()
           /\ pointer' = [pointer EXCEPT ![p].points = <<>>]
           /\ overlayLayer1' = [overlayLayer1 EXCEPT ![p] = clear]
           /\ image' = [image EXCEPT ![p] = IF Passed("imageData", at) THEN resized ELSE @]
           /\ layer' = [layer EXCEPT ![p] = IF Passed("load", at) THEN resized ELSE @]
           /\ props' = [props EXCEPT ![p] =
                           IF Passed("update", at)
                           THEN update(@, [image_dims |-> size, base_dims |-> @.base_dims])
                           ELSE @]
           /\ status' = [status EXCEPT ![p] =
                            Commit(@, IF at = "none" THEN <<>> ELSE <<"error">>)]
           /\ last' = Matrices(Sized(Threw(Op("resize", p, at), at # "none"), size),
                               acquired, released)
    /\ UNCHANGED <<source, methods, aligned, mode, message, effStatus, modeRan, bound,
                   pending, exporting, nextId, latest>>
    /\ UNCHANGED magnifierLayer
    /\ UNCHANGED Widgets

\* ---------------------------------------------------------------- view commands
\* The panel menu's fit, expand, zoomIn, zoomOut and saveState, offered for a
\* panel that holds an image.

\* What a view command leaves in the panel: the image canvas rendered to
\* viewDims and the control points redrawn on the overlay.
View(p, name, viewDims, fails) ==
    /\ Settled
    /\ image[p] # NULL
    /\ LET r == _renderImage(p, layer[p], viewDims, props[p].render_dims, fails)
       IN  /\ image' = [image EXCEPT ![p] = r.image]
           /\ props' = [props EXCEPT ![p].render_dims = r.render_dims]
           /\ status' = [status EXCEPT ![p] = Commit(@, r.q)]
    /\ overlayLayer1' = [overlayLayer1 EXCEPT ![p] = drawControlPoints(pointer[p].points)]
    /\ last' = Threw(Op(name, p, "none"), fails)
    /\ UNCHANGED <<source, layer, pointer, methods, aligned, mode, message, effStatus,
                   modeRan, bound, pending, exporting, nextId, latest>>
    /\ UNCHANGED magnifierLayer
    /\ UNCHANGED Widgets

\* _fitView().
FitView(p, fails) ==
    View(p, "fit", Fit(props[p].image_dims, props[p].base_dims), fails)

\* _fullView().
FullView(p, fails) ==
    View(p, "expand",
         [x |-> 0, y |-> 0, w |-> props[p].image_dims.w, h |-> props[p].image_dims.h],
         fails)

\* The zoom factors of _zoomIn (1.25) and _zoomOut (0.8), as fractions.
ZoomValues == {[n |-> 5, d |-> 4], [n |-> 4, d |-> 5]}

\* A zoom that truncates where Math.round rounds.
Zoomed_floor(v, zoomValue) == (v * zoomValue.n) \div zoomValue.d

\* Math.round(v * zoomValue).
Zoomed(v, zoomValue) == RoundDiv(v * zoomValue.n, zoomValue.d)

\* Largest render offset a pan is followed to.
MaxPan == BaseW
\* Largest rendered width or height a zoom is followed to.
MaxView == BaseW + 1

\* _zoomView(zoomValue).
ZoomView(p, zoomValue, fails) ==
    LET rd == props[p].render_dims
        viewDims == [x |-> Zoomed(rd.x, zoomValue), y |-> Zoomed(rd.y, zoomValue),
                     w |-> Zoomed(rd.w, zoomValue), h |-> Zoomed(rd.h, zoomValue)]
    IN  /\ viewDims.w <= MaxView /\ viewDims.h <= MaxView
        /\ Abs(viewDims.x) <= MaxPan /\ Abs(viewDims.y) <= MaxPan
        /\ View(p, "zoom", viewDims, fails)

\* _syncImages(): the pixels of the image canvas become the source.
SyncImages(p, fails) ==
    /\ Settled
    /\ image[p] # NULL
    /\ IF fails
       THEN /\ status' = [status EXCEPT ![p] = "error"]
            /\ UNCHANGED <<source, props, message>>
       ELSE /\ source' = [source EXCEPT ![p] = getImageData(layer[p])]
            /\ props' = [props EXCEPT ![p].source_dims =
                            [w |-> props[p].image_dims.w, h |-> props[p].image_dims.h]]
            /\ message' = "syncSuccess"
            /\ UNCHANGED status
    /\ last' = Threw(Op("saveState", p, "none"), fails)
    /\ UNCHANGED <<image, layer, pointer, methods, aligned, mode, effStatus, modeRan,
                   bound, pending, exporting, nextId, overlayLayer1, latest>>
    /\ UNCHANGED magnifierLayer
    /\ UNCHANGED Widgets

\* ------------------------------------------------------------- overlay toggle

\* A toggle that drops the control points it is to superimpose.
ToggleOverlay_writes(p) ==
    /\ Settled
    /\ props' = [props EXCEPT ![p].overlay = ~@]
    /\ pointer' = [pointer EXCEPT ![Other(p)].points = <<>>]
    /\ last' = Op("overlay", p, "none")
    /\ UNCHANGED <<status, image, source, layer, methods, aligned, mode, message,
                   effStatus, modeRan, bound, pending, exporting, nextId, overlayLayer1,
                   latest>>
    /\ UNCHANGED magnifierLayer
    /\ UNCHANGED Widgets

\* properties.overlay is toggled and useEffect(..., [panel.properties.overlay])
\* runs: it reads the other panel's control points and dimensions and draws them
\* on (or clears) the panel's second overlay canvas.
ToggleOverlay(p) ==
    /\ Settled
    /\ props' = [props EXCEPT ![p].overlay = ~@]
    /\ last' = Op("overlay", p, "none")
    /\ UNCHANGED <<status, image, source, layer, pointer, methods, aligned, mode, message,
                   effStatus, modeRan, bound, pending, exporting, nextId, overlayLayer1,
                   latest>>
    /\ UNCHANGED magnifierLayer
    /\ UNCHANGED Widgets

\* --------------------------------------------------------------- registration

\* Twice the signed area of the triangle a, b, c.
Cross(a, b, c) == (b.x - a.x) * (c.y - a.y) - (b.y - a.y) * (c.x - a.x)

\* All the points of the list lie on one line.
Collinear(pts) ==
    \A i, j, k \in 1..Len(pts) : Cross(pts[i], pts[j], pts[k]) = 0

\* The least number of correspondences registration accepts.
MinControlPoints == 3

\* alignImages(cv, panelSrc, panelDst, canvas, image, options): the validation
\* it makes before the solver is invoked; "none" when the correspondence set is
\* accepted.
AlignError(src, dst) ==
    IF image[src] = NULL \/ image[dst] = NULL THEN "emptyCanvas"
    ELSE IF Len(pointer[src].points) # Len(pointer[dst].points)
         THEN "mismatchedControlPoints"
    ELSE IF Len(pointer[dst].points) < MinControlPoints THEN "missingControlPoints"
    ELSE IF Collinear(pointer[src].points) \/ Collinear(pointer[dst].points)
         THEN "collinearControlPoints"
    ELSE "none"

\* The sizes the raster returned by alignImages can have: the invoking panel's
\* image is warped onto the other panel's, so the result has the size of one of
\* the two images.
ResultSizes(p) ==
    {[w |-> props[q].image_dims.w, h |-> props[q].image_dims.h] : q \in Panels}

\* _alignImage(): the callback of the Register tool.
\* size: the size of the returned raster; solved: the solver found a transform;
\* fails: the render throws.
AlignImage(p, size, solved, fails) ==
    /\ Settled
    /\ LET panelSrc == Other(p)
           panelDst == p
           err == AlignError(panelSrc, panelDst)
           error == IF err # "none" THEN err ELSE IF solved THEN "none" ELSE "solverError"
           warped == Raster(image[p].id, "warped")
           view == Fit(size, props[p].base_dims)
           r == _renderImage(p, warped, view, props[p].render_dims, fails)
       IN  IF error # "none"
           THEN \* return iat.setMessage(result.error)
                /\ ~fails
                /\ (err # "none" => solved)
                /\ size = [w |-> props[p].image_dims.w, h |-> props[p].image_dims.h]
                /\ status' = [status EXCEPT ![p] = Commit(status[p], <<"loading">>)]
                /\ message' = error
                /\ last' = Op("align", p, error)
                /\ UNCHANGED <<image, layer, props, aligned>>
           ELSE /\ size \in ResultSizes(p)
                /\ status' = [status EXCEPT ![p] =
                                Commit(status[p], <<"loading">> \o r.q \o <<"loaded">>)]
                /\ layer' = [layer EXCEPT ![p] = warped]
                /\ image' = [image EXCEPT ![p] = r.image]
                /\ props' = [props EXCEPT ![p].render_dims = r.render_dims]
                /\ aligned' = [aligned EXCEPT ![p] = TRUE]
                /\ last' = Sized(Threw(Op("align", p, "none"), fails), size)
                /\ UNCHANGED message
    /\ UNCHANGED <<source, pointer, methods, mode, effStatus, modeRan, bound, pending,
                   exporting, nextId, overlayLayer1, latest>>
    /\ UNCHANGED magnifierLayer
    /\ UNCHANGED Widgets

\* ----------------------------------------------------------------------- crop

\* The CropTool is rendered only in crop mode on a loaded panel with an image.
CropToolShown(p) == mode = "crop" /\ image[p] # NULL /\ status[p] = "loaded"

\* Dimensions that take the height of the box for the width.
CropDims_swapped(box) == [w |-> box.h, h |-> box.w]

\* The image_dims _applyCropBox stores: the width and height of the box.
CropDims(box) == [w |-> box.w, h |-> box.h]

\* _applyCropBox(): the callback of the CropTool.
\* thrown: cropImage throws; fails: the render throws.
ApplyCropBox(p, thrown, fails) ==
    /\ Settled
    /\ CropToolShown(p)
    /\ LET box == pointer[p].selectBox
           scaled == Fit([w |-> box.w, h |-> box.h], props[p].base_dims)
           cropped == Raster(image[p].id, "cropped")
           r == _renderImage(p, cropped, scaled, props[p].render_dims, fails)
       IN  IF box.w = 0 /\ box.h = 0
           THEN \* return, after setStatus('loading')
                /\ ~thrown /\ ~fails
                /\ status' = [status EXCEPT ![p] = Commit(status[p], <<"loading">>)]
                /\ last' = Op("crop", p, "emptyBox")
                /\ UNCHANGED <<image, layer, props, pointer, message, overlayLayer1>>
           ELSE IF thrown
           THEN /\ ~fails
                /\ status' = [status EXCEPT ![p] =
                                Commit(status[p], <<"loading", "error">>)]
                /\ message' = "cropError"
                /\ last' = Threw(Op("crop", p, "thrown"), TRUE)
                /\ UNCHANGED <<image, layer, props, pointer, overlayLayer1>>
           ELSE /\ status' = [status EXCEPT ![p] =
                                Commit(status[p], <<"loading">> \o r.q \o <<"loaded">>)]
                /\ layer' = [layer EXCEPT ![p] = cropped]
                /\ image' = [image EXCEPT ![p] = r.image]
                /\ props' = [props EXCEPT ![p] =
                                update(@, [image_dims |-> CropDims(box),
                                           render_dims |-> scaled])]
                /\ pointer' = [pointer EXCEPT ![p] =
                                  [@ EXCEPT !.points = <<>>, !.selectBox = EmptyBox]]
                /\ overlayLayer1' = [overlayLayer1 EXCEPT ![p] = clear]
                /\ last' = Threw(Op("crop", p, "none"), fails)
                /\ UNCHANGED message
    /\ UNCHANGED <<source, methods, aligned, mode, effStatus, modeRan, bound, pending,
                   exporting, nextId, latest>>
    /\ UNCHANGED magnifierLayer
    /\ UNCHANGED Widgets

\* ----------------------------------------------------------------------- mode

\* The menu's mode buttons: Pan and Crop are enabled when a panel is loaded,
\* Align (select) when both are.
imageLoaded == status["panel1"] = "loaded" \/ status["panel2"] = "loaded"
imagesLoaded == status["panel1"] = "loaded" /\ status["panel2"] = "loaded"

\* onClick of a mode button: iat.setMessage(null); iat.setMode(m).
SetMode(m) ==
    /\ Settled
    /\ IF m = "select" THEN imagesLoaded ELSE imageLoaded
    /\ mode' = m
    /\ message' = "none"
    /\ last' = Op("setMode", "panel1", m)
    /\ UNCHANGED overlayLayer1
    /\ UNCHANGED <<status, image, source, layer, props, pointer, methods, aligned,
                   effStatus, modeRan, bound, pending, exporting, nextId, latest>>
    /\ UNCHANGED magnifierLayer
    /\ UNCHANGED Widgets

\* A binding that keeps the pan handler for mouse out in select mode.
ModeBundle_mixed(m) ==
    CASE m = "pan" -> PanBundle
      [] m = "select" -> [SelectBundle EXCEPT !.out = PanBundle.out]
      [] m = "crop" -> CropBundle

\* The handlers the mode effect binds in mode m.
ModeBundle(m) ==
    CASE m = "pan" -> PanBundle
      [] m = "select" -> SelectBundle
      [] m = "crop" -> CropBundle

\* useEffect(..., [iat.mode]): binds the handlers of the mode; on entry to crop
\* mode a panel with an image is first reset to its source.
ModeEffect(p, fails) ==
    /\ ModeEffectPending(p)
    /\ modeRan' = [modeRan EXCEPT ![p] = mode]
    /\ bound' = [bound EXCEPT ![p] = [image |-> image[p] # NULL, status |-> status[p]]]
    /\ IF mode = "crop" /\ image[p] # NULL
       THEN LET r == _resetImage(p, fails)
            IN  /\ fails => source[p] # NULL
                /\ image' = [image EXCEPT ![p] = r.image]
                /\ layer' = [layer EXCEPT ![p] = r.layer]
                /\ props' = [props EXCEPT ![p] = r.props]
                /\ pointer' = [pointer EXCEPT ![p] = r.pointer]
                /\ status' = [status EXCEPT ![p] = Commit(status[p], r.q)]
                /\ message' = r.message
                /\ aligned' = [aligned EXCEPT ![p] = r.aligned]
                /\ overlayLayer1' = [overlayLayer1 EXCEPT ![p] = r.overlay]
       ELSE /\ ~fails
            /\ UNCHANGED <<image, layer, props, pointer, status, message, aligned,
                           overlayLayer1>>
    /\ methods' = [methods EXCEPT ![p] =
                      setMethods(@, ModeBundle(mode))]
    /\ last' = Threw(Op("modeEffect", p, mode), fails)
    /\ UNCHANGED <<source, mode, effStatus, pending, exporting, nextId, latest>>
    /\ UNCHANGED magnifierLayer
    /\ UNCHANGED Widgets

\* ------------------------------------------------------------ mouse handlers
\* A handler is called as handler(e, properties, pointer) and answers with what
\* it leaves in the panel: [pointer, props, methods, message, q], and what it
\* draws on the first overlay canvas ("same": it draws nothing).

Result(ptr, pr, m, msg, q) ==
    [pointer |-> ptr, props |-> pr, methods |-> m, message |-> msg, q |-> q,
     overlay |-> "same"]

\* The handler's result, with the overlay canvas left showing content.
Draws(r, content) == [r EXCEPT !.overlay = content]

Unhandled(p, ptr) == Result(ptr, props[p], methods[p], message, <<>>)

\* A pan that keeps the anchor of the mouse down, so that every move adds the
\* whole distance from it again.
_panImage_drift(p, ptr, fails) ==
    LET rd == props[p].render_dims
        viewDims == [rd EXCEPT !.x = rd.x + ptr.x - ptr.selected.x,
                               !.y = rd.y + ptr.y - ptr.selected.y]
    IN  IF ~ptr.selected.set THEN Unhandled(p, ptr)
        ELSE Draws(Result(ptr, [props[p] EXCEPT !.render_dims = viewDims],
                          methods[p], message, <<>>),
                   drawControlPoints(ptr.points))

\* _panImage(e, properties, pointer): translates render_dims by the distance
\* from the anchor and re-anchors at the cursor; a throw of the draw, which
\* comes after the re-anchoring, sets the status to error.
_panImage(p, ptr, fails) ==
    LET rd == props[p].render_dims
        viewDims == [rd EXCEPT !.x = rd.x + ptr.x - ptr.selected.x,
                               !.y = rd.y + ptr.y - ptr.selected.y]
    IN  IF ~ptr.selected.set THEN Unhandled(p, ptr)
        ELSE IF fails THEN Result([ptr EXCEPT !.selected = Anchor(ptr.x, ptr.y)],
                                  props[p], methods[p], message, <<"error">>)
        ELSE Draws(Result([ptr EXCEPT !.selected = Anchor(ptr.x, ptr.y)],
                          [props[p] EXCEPT !.render_dims = viewDims],
                          methods[p], message, <<>>),
                   drawControlPoints(ptr.points))

\* _startCropBox(e, properties, pointer): a down inside the box binds the
\* move-box handlers, a down outside starts a new box at the cursor.
_startCropBox(p, ptr) ==
    LET box == ptr.selectBox
        scaledPt == scalePoint(ptr, props[p].image_dims, props[p].render_dims)
        inside == /\ box.w > 0 /\ box.h > 0
                  /\ scaledPt.x >= box.x /\ scaledPt.x <= box.x + box.w
                  /\ scaledPt.y >= box.y /\ scaledPt.y <= box.y + box.h
    IN  IF inside
        THEN Result(ptr, props[p], setMethods(methods[p], MoveBoxBundle), message, <<>>)
        ELSE Draws(Result([ptr EXCEPT !.selectBox =
                              [x |-> scaledPt.x, y |-> scaledPt.y, w |-> 0, h |-> 0]],
                          props[p], methods[p], message, <<>>),
                   drawBoundingBox(0, 0))

\* _selectCropBox(e, properties, pointer): the box spanned by anchor and cursor.
_selectCropBox(p, ptr) ==
    LET rd == props[p].render_dims
        scale == getScale(props[p].image_dims, rd)
        x == Min(ptr.x, ptr.selected.x)
        y == Min(ptr.y, ptr.selected.y)
        w == rd.x + ptr.x - ptr.selected.x
        h == rd.y + ptr.y - ptr.selected.y
    IN  IF ~ptr.selected.set THEN Unhandled(p, ptr)
        ELSE Draws(Result([ptr EXCEPT !.selectBox =
                              [x |-> ScaleX(scale, x), y |-> ScaleY(scale, y),
                               w |-> Abs(ScaleX(scale, w)), h |-> Abs(ScaleY(scale, h))]],
                          props[p], methods[p], message, <<>>),
                   drawBoundingBox(w, h))

\* _moveCropBox(e, properties, pointer): the box translated by the distance
\* from the anchor; re-anchors at the cursor.
_moveCropBox(p, ptr) ==
    LET box == ptr.selectBox
        scaleDown == getScale(props[p].render_dims, props[p].image_dims)
        x == ScaleX(scaleDown, box.x) + ptr.x - ptr.selected.x
        y == ScaleY(scaleDown, box.y) + ptr.y - ptr.selected.y
        scaleUp == getScale(props[p].image_dims, props[p].render_dims)
    IN  IF ~ptr.selected.set THEN Unhandled(p, ptr)
        ELSE Draws(Result([ptr EXCEPT !.selected = Anchor(ptr.x, ptr.y),
                                      !.selectBox = [x |-> ScaleX(scaleUp, x),
                                                     y |-> ScaleY(scaleUp, y),
                                                     w |-> box.w, h |-> box.h]],
                          props[p], methods[p], message, <<>>),
                   drawBoundingBox(ScaleX(scaleDown, box.w), ScaleY(scaleDown, box.h)))

\* The width (or height) _endCropBox keeps of a box edge at x, of length w, on
\* an image of length dim.
ClampLength(x, w, dim) ==
    IF x + w > dim THEN dim - Abs(x)
    ELSE IF x < 0 THEN w - Abs(x)
    ELSE w

\* The origin _endCropBox keeps.
ClampOrigin(x, dim) == Max(Min(x, dim), 0)

\* _endCropBox(e, properties, pointer): panel.image and panel.status are those
\* of the render that bound the handler.
_endCropBox(p, ptr) ==
    LET box == ptr.selectBox
        dims == props[p].image_dims
        scale == getScale(props[p].render_dims, dims)
    IN  IF \/ ~bound[p].image
           \/ bound[p].status # "loaded"
           \/ box.w = 0
           \/ box.h = 0
        THEN \* _clearOverlay(); pointer.resetSelectBox()
             Draws(Result([ptr EXCEPT !.points = <<>>, !.selectBox = EmptyBox],
                          props[p], setMethods(methods[p], CropBundle), message, <<>>),
                   clear)
        ELSE Draws(Result([ptr EXCEPT !.selectBox =
                              [x |-> ClampOrigin(box.x, dims.w),
                               y |-> ClampOrigin(box.y, dims.h),
                               w |-> ClampLength(box.x, box.w, dims.w),
                               h |-> ClampLength(box.y, box.h, dims.h)]],
                          props[p], setMethods(methods[p], CropBundle), message, <<>>),
                   IF props[p].render_dims.w = 0 \/ props[p].render_dims.h = 0
                   THEN \* the scale is not finite: nothing is drawn
                        clear
                   ELSE drawBoundingBox(
                            Abs(ScaleX(scale, ClampLength(box.x, box.w, dims.w))),
                            Abs(ScaleY(scale, ClampLength(box.y, box.h, dims.h)))))

\* The rendered (canvas) position of a control point.
Rendered(p, ctrlPt) ==
    LET pt == scalePoint(ctrlPt, props[p].render_dims, props[p].image_dims)
    IN  Point(pt.x + props[p].render_dims.x, pt.y + props[p].render_dims.y)

\* The indices (from 0) of the control points within ptrRadius of the cursor.
Near(p, points, pos) ==
    {i \in 0..(Len(points) - 1) :
        LET c == Rendered(p, points[i + 1])
        IN  inRange(pos.x, pos.y, c.x, c.y, ptrRadius)}

SetMax(S) == CHOOSE i \in S : \A j \in S : j <= i

\* The cursor lies on the rendered image.
OnImage(p, pos) ==
    LET rd == props[p].render_dims
    IN  /\ ~(pos.x > rd.w + rd.x \/ pos.y > rd.h + rd.y)
        /\ ~(pos.x < rd.x \/ pos.y < rd.y)

\* The image-space position of a canvas position, under properties pr.
ActualIn(pr, x, y) ==
    LET rd == pr.render_dims
        scaleUp == getScale(pr.image_dims, rd)
    IN  Point(ScaleX(scaleUp, x - rd.x), ScaleY(scaleUp, y - rd.y))

Actual(p, x, y) == ActualIn(props[p], x, y)

\* A test that lets one point past the maximum.
AtMax_past(points) == Len(points) > controlPtMax

\* The maximum number of control points has been reached.
AtMax(points) == Len(points) >= controlPtMax

\* _selectControlPoint(e, properties, pointer).
_selectControlPoint(p, ptr) ==
    LET pos == Point(ptr.x, ptr.y)
        near == Near(p, ptr.points, pos)
    IN  IF ~OnImage(p, pos) THEN Unhandled(p, ptr)
        ELSE IF near # {}
        THEN Result([ptr EXCEPT !.index = SetMax(near)],
                    props[p], methods[p], message, <<>>)
        ELSE IF AtMax(ptr.points)
        THEN Result(ptr, props[p], methods[p], "maxControlPoints", <<>>)
        ELSE Draws(Result([ptr EXCEPT !.points = Append(@, Actual(p, pos.x, pos.y))],
                          props[p], methods[p], message, <<>>),
                   drawControlPoints(Append(ptr.points, pos)))

\* _deselectControlPoint().
_deselectControlPoint(p, ptr) ==
    Result([ptr EXCEPT !.index = -1], props[p], methods[p], message, <<>>)

\* _moveControlPoint(e, properties, pointer).
\* A move that stores the dragged position as a further point.
_moveControlPoint_append(p, ptr) ==
    LET x == ptr.x + (ptr.x - ptr.selected.x)
        y == ptr.y + (ptr.y - ptr.selected.y)
    IN  IF ~ptr.selected.set \/ ptr.index < 0 THEN Unhandled(p, ptr)
        ELSE IF ptr.index >= Len(ptr.points) THEN Unhandled(p, ptr)
        ELSE IF ~OnImage(p, Point(ptr.x, ptr.y)) THEN Unhandled(p, ptr)
        ELSE Draws(Result([ptr EXCEPT !.selected = Anchor(ptr.x, ptr.y),
                                      !.points = Append(@, Actual(p, x, y))],
                          props[p], methods[p], message, <<>>),
                   drawControlPoints(ptr.points))

_moveControlPoint(p, ptr) ==
    LET x == ptr.x + (ptr.x - ptr.selected.x)
        y == ptr.y + (ptr.y - ptr.selected.y)
    IN  IF ~ptr.selected.set \/ ptr.index < 0 THEN Unhandled(p, ptr)
        ELSE IF ptr.index >= Len(ptr.points) THEN Unhandled(p, ptr)
        ELSE IF ~OnImage(p, Point(ptr.x, ptr.y)) THEN Unhandled(p, ptr)
        ELSE Draws(Result([ptr EXCEPT !.selected = Anchor(ptr.x, ptr.y),
                                      !.points[ptr.index + 1] = Actual(p, x, y)],
                          props[p], methods[p], message, <<>>),
                   drawControlPoints(ptr.points))

\* The handler bound under the given name.
Handle(name, p, ptr, fails) ==
    CASE name = "_panImage" -> _panImage(p, ptr, fails)
      [] name = "_startCropBox" -> _startCropBox(p, ptr)
      [] name = "_selectCropBox" -> _selectCropBox(p, ptr)
      [] name = "_moveCropBox" -> _moveCropBox(p, ptr)
      [] name = "_endCropBox" -> _endCropBox(p, ptr)
      [] name = "_selectControlPoint" -> _selectControlPoint(p, ptr)
      [] name = "_moveControlPoint" -> _moveControlPoint(p, ptr)
      [] name = "_deselectControlPoint" -> _deselectControlPoint(p, ptr)
      [] OTHER -> Unhandled(p, ptr)

\* ------------------------------------------------------------------ controller
\* The panel's controller keeps pointer.x, pointer.y and the anchor
\* (pointer.selected) and calls the bound handler with the panel's properties
\* and pointer.

\* The panel has an image to point at: image and render dimensions are positive.
HasDims(p) ==
    /\ props[p].image_dims.w > 0 /\ props[p].image_dims.h > 0
    /\ props[p].render_dims.w > 0 /\ props[p].render_dims.h > 0

\* A crop box is followed while its origin is within this distance of the image
\* origin (a box can be dragged on without end).
BoxRange == 2 * BaseW
\* A dragged control point is followed while it is within this distance of the
\* image.
PointReach == 0

WithinReach(pt, dims) ==
    /\ pt.x >= -PointReach /\ pt.x <= dims.w + PointReach
    /\ pt.y >= -PointReach /\ pt.y <= dims.h + PointReach

Dispatch(p, r, anchor) ==
    /\ pointer' = [pointer EXCEPT ![p] = IF anchor = "keep" THEN r.pointer
                                         ELSE IF anchor = "set"
                                         THEN [r.pointer EXCEPT !.selected =
                                                  Anchor(r.pointer.x, r.pointer.y)]
                                         ELSE [r.pointer EXCEPT !.selected = NoPoint]]
    /\ magnifierLayer' = [magnifierLayer EXCEPT ![p] =
                             MagnifierEffect(@, pointer[p], r.pointer)]
    /\ props' = [props EXCEPT ![p] = r.props]
    /\ methods' = [methods EXCEPT ![p] = r.methods]
    /\ message' = r.message
    /\ status' = [status EXCEPT ![p] = Commit(status[p], r.q)]
    /\ overlayLayer1' = [overlayLayer1 EXCEPT ![p] =
                            IF r.overlay = "same" THEN @ ELSE r.overlay]
    /\ UNCHANGED <<image, source, layer, aligned, mode, effStatus, modeRan, bound,
                   pending, exporting, nextId, latest>>
    /\ UNCHANGED Widgets

\* onMouseMove at canvas position (x, y).
MouseMove(p, x, y, fails) ==
    /\ Settled
    /\ HasDims(p)
    /\ <<x, y>> # <<pointer[p].x, pointer[p].y>>
    /\ fails => methods[p].move = "_panImage" /\ pointer[p].selected.set
    /\ LET r == Handle(methods[p].move, p, [pointer[p] EXCEPT !.x = x, !.y = y], fails)
       IN  /\ Abs(r.props.render_dims.x) <= MaxPan
           /\ Abs(r.props.render_dims.y) <= MaxPan
           /\ Abs(r.pointer.selectBox.x) <= BoxRange
           /\ Abs(r.pointer.selectBox.y) <= BoxRange
           /\ \A i \in 1..Len(r.pointer.points) :
                 WithinReach(r.pointer.points[i], r.props.image_dims)
           /\ Dispatch(p, r, "keep")
    /\ last' = Threw(Op("move", p, methods[p].move), fails)

\* onMouseDown at the cursor: the handler runs, the cursor becomes the anchor.
MouseDown(p) ==
    /\ Settled
    /\ HasDims(p)
    /\ ~pointer[p].selected.set
    /\ Dispatch(p, Handle(methods[p].down, p, pointer[p], FALSE), "set")
    /\ last' = Op("down", p, methods[p].down)

\* onMouseUp: the handler runs, the anchor is dropped.
MouseUp(p) ==
    /\ Settled
    /\ pointer[p].selected.set
    /\ Dispatch(p, Handle(methods[p].up, p, pointer[p], FALSE), "drop")
    /\ last' = Op("up", p, methods[p].up)

\* onMouseOut: the handler runs, the anchor is dropped.
MouseOut(p) ==
    /\ Settled
    /\ Dispatch(p, Handle(methods[p].out, p, pointer[p], FALSE), "drop")
    /\ last' = Op("out", p, methods[p].out)

\* ------------------------------------------------------------- specifications

Bool == {TRUE, FALSE}

\* The panel whose life cycle is followed; the panels share no state that the
\* life-cycle operations read, and the other panel stays as constructed.
Subject == {"panel1"}

\* The panel life cycle: loads, their callbacks, the status effect, and the
\* panel commands.
Next ==
    \/ \E p \in Subject : RequestLoad(p)
    \/ \E p \in Subject : RequestUpdate(p)
    \/ \E p \in Subject, fails \in Bool : StatusEffect(p, fails)
    \/ \E p \in Subject : LoadImage(p)
    \/ \E l \in pending, resp \in Responses, fails \in Bool : LoadCallback(l, resp, fails)
    \/ \E p \in Subject : RemoveImage(p)
    \/ \E p \in Subject, fails \in Bool : ResetImage(p, fails)
    \/ \E p \in Subject, fails \in Bool : DownloadImage(p, fails)
    \/ \E p \in Subject : DownloadCallback(p)

Spec == Init /\ [][Next]_vars

\* ------------------------------------------------- pointer specifications

\* The properties of a panel after the id-th load succeeded.
LoadedProps(id) ==
    [_init(InitProps, LoaderProps(id, SizeOf(id)))
        EXCEPT !.render_dims = Fit(SizeOf(id), [w |-> BaseW, h |-> BaseH])]

\* Both panels hold the image of a successful load, in the given mode, the
\* mode's handlers bound: the state after two loads and a click on a mode
\* button (the mode effect has run on both panels; on entry to crop mode it has
\* reset both).
LoadedWithin(ids, m, points, left) ==
    /\ status = [p \in Panels |-> "loaded"]
    /\ image = [p \in Panels |-> Raster(ids[p], "orig")]
    /\ source = [p \in Panels |-> Raster(ids[p], "orig")]
    /\ layer = [p \in Panels |-> Raster(ids[p], "orig")]
    /\ props = [p \in Panels |-> LoadedProps(ids[p])]
    /\ pointer = [p \in Panels |-> [InitPointer EXCEPT !.points = points[p]]]
    /\ methods = [p \in Panels |-> CASE m = "pan" -> PanBundle
                                     [] m = "select" -> SelectBundle
                                     [] m = "crop" -> CropBundle]
    /\ aligned = [p \in Panels |-> FALSE]
    /\ mode = m
    /\ message = IF m = "crop" THEN "resetSuccess" ELSE "none"
    /\ effStatus = [p \in Panels |-> "loaded"]
    /\ modeRan = [p \in Panels |-> m]
    /\ bound = [p \in Panels |-> IF m = "pan" THEN [image |-> FALSE, status |-> "empty"]
                                 ELSE [image |-> TRUE, status |-> "loaded"]]
    /\ pending = {}
    /\ exporting = [p \in Panels |-> 0]
    /\ nextId = 2
    /\ overlayLayer1 = [p \in Panels |-> drawControlPoints(points[p])]
    /\ latest = ids
    /\ magnifierLayer = [p \in Panels |-> NoPreview]
    /\ editor = InitEditor /\ slideshow = InitSlideshow /\ img = InitImage
    /\ last = IF m = "pan" THEN FirstOp("loadCallback", "panel2", "ok", ids["panel2"], left)
              ELSE FirstOp("modeEffect", "panel2", m, 0, left)

Loaded(ids, m, points) == LoadedWithin(ids, m, points, Unbounded)

\* Which load went to which panel.
LoadOrders == {[panel1 |-> 1, panel2 |-> 2], [panel1 |-> 2, panel2 |-> 1]}
NoPoints == [p \in Panels |-> <<>>]

\* The canvas positions the cursor visits: the columns of the canvas, on its
\* top and bottom rows.
Xs == 0..BaseW
Ys == {0, BaseH}

\* Crop mode: the pointer events of one panel, and a further load on it.
InitCrop == \E ids \in LoadOrders : Loaded(ids, "crop", NoPoints)

NextCrop ==
    \/ \E p \in Subject, x \in Xs, y \in Ys : MouseMove(p, x, y, FALSE)
    \/ \E p \in Subject : MouseDown(p)
    \/ \E p \in Subject : MouseUp(p)
    \/ \E p \in Subject : MouseOut(p)
    \/ \E p \in Subject : LoadImage(p)
    \/ \E l \in pending, resp \in Responses : LoadCallback(l, resp, FALSE)
    \/ \E p \in Subject : StatusEffect(p, FALSE)

SpecCrop == InitCrop /\ [][NextCrop]_vars

\* The control points the other panel holds: none, three that span a triangle,
\* or three on a line, each placed by a click at a canvas position.
Placed(pr, clicks) == [i \in 1..Len(clicks) |-> ActualIn(pr, clicks[i].x, clicks[i].y)]

Triangle == <<Point(0, 0), Point(BaseW, 0), Point(0, BaseH)>>
Line == <<Point(0, 0), Point(BaseW \div 2, 0), Point(BaseW, 0)>>
OtherPoints(id) ==
    {<<>>, Placed(LoadedProps(id), Triangle), Placed(LoadedProps(id), Line)}

\* The load order the select and mode specifications start from.
FirstOrder == [panel1 |-> 1, panel2 |-> 2]

\* Select mode: the pointer events of one panel, at the corners and the centre
\* of the canvas.
Corners ==
    {Point(0, 0), Point(BaseW, 0), Point(0, BaseH), Point(BaseW, BaseH),
     Point(BaseW \div 2, BaseH \div 2)}

InitSelect == Loaded(FirstOrder, "select", NoPoints)

NextSelect ==
    \/ \E p \in Subject, pos \in Corners : MouseMove(p, pos.x, pos.y, FALSE)
    \/ \E p \in Subject : MouseDown(p)
    \/ \E p \in Subject : MouseUp(p)
    \/ \E p \in Subject : MouseOut(p)

SpecSelect == InitSelect /\ [][NextSelect]_vars

\* Select mode with either image on the panel: the image that fits the canvas
\* exactly, or the image of twice its size rendered at half scale.
InitPoint == \E ids \in LoadOrders : Loaded(ids, "select", NoPoints)

SpecPoint == InitPoint /\ [][NextSelect]_vars

\* The crop tool: the crop-mode pointer events of one panel at the corners and
\* the centre of the canvas, its CropTool button and the status effect that
\* follows it.
InitApply == Loaded(FirstOrder, "crop", NoPoints)

NextApply ==
    \/ \E p \in Subject, pos \in Corners : MouseMove(p, pos.x, pos.y, FALSE)
    \/ \E p \in Subject : MouseDown(p)
    \/ \E p \in Subject : MouseUp(p)
    \/ \E p \in Subject : MouseOut(p)
    \/ \E p \in Subject, thrown \in Bool, fails \in Bool : ApplyCropBox(p, thrown, fails)
    \/ \E p \in Subject : StatusEffect(p, FALSE)

SpecApply == InitApply /\ [][NextApply]_vars

\* Registration: the select-mode pointer events of one panel, its Register
\* tool and the status effect that follows it.
NextRegister ==
    \/ NextSelect
    \/ \E p \in Subject : \E size \in ResultSizes(p), solved \in Bool :
          AlignImage(p, size, solved, FALSE)
    \/ \E p \in Subject : StatusEffect(p, FALSE)

InitRegister ==
    \E pts \in OtherPoints(FirstOrder["panel2"]) :
        Loaded(FirstOrder, "select", [panel1 |-> <<>>, panel2 |-> pts])

SpecRegister == InitRegister /\ [][NextRegister]_vars

\* Resizing: the resize and reset commands of one panel that holds an image.
NewSizes == {SizeOf(id) : id \in 1..3}
ThrowAt == {"none"} \cup {ResizeSteps[i] : i \in 1..Len(ResizeSteps)}

InitResize == Loaded(FirstOrder, "pan", NoPoints)

NextResize ==
    \/ \E p \in Subject, size \in NewSizes, at \in ThrowAt : ResizeImage(p, size, at)
    \/ \E p \in Subject, fails \in Bool : ResetImage(p, fails)
    \/ \E p \in Subject : StatusEffect(p, FALSE)

SpecResize == InitResize /\ [][NextResize]_vars

\* Mode switches: the mode buttons, the mode effect of both panels, and the
\* pointer events of one panel at two opposite corners of the canvas.
Steps == {Point(0, 0), Point(BaseW, BaseH)}

InitMode == Loaded(FirstOrder, "pan", NoPoints)

NextMode ==
    \/ \E m \in Modes : SetMode(m)
    \/ \E p \in Panels : ModeEffect(p, FALSE)
    \/ \E p \in Subject, pos \in Steps : MouseMove(p, pos.x, pos.y, FALSE)
    \/ \E p \in Subject : MouseDown(p)
    \/ \E p \in Subject : MouseUp(p)
    \/ \E p \in Subject : MouseOut(p)

SpecMode == InitMode /\ [][NextMode]_vars

\* Mode changes on panels that come and go: the mode specification with the
\* removal of the panel's image and the status effect that follows it.
NextSwitch ==
    \/ NextMode
    \/ \E p \in Subject : RemoveImage(p)
    \/ \E p \in Subject : StatusEffect(p, FALSE)

SpecSwitch == InitMode /\ [][NextSwitch]_vars

\* The tools of a panel: in pan or crop mode, with three control points on each
\* panel, the pointer events of one panel at two opposite corners, its zoom, resize, align, crop and
\* reset commands and the status effect that follows them.
ToolModes == {"pan", "crop"}

InitTools ==
    \E m \in ToolModes :
        Loaded(FirstOrder, m,
               [p \in Panels |-> Placed(LoadedProps(FirstOrder[p]), Triangle)])

NextTools ==
    \/ \E p \in Subject, pos \in Steps : MouseMove(p, pos.x, pos.y, FALSE)
    \/ \E p \in Subject : MouseDown(p)
    \/ \E p \in Subject : MouseUp(p)
    \/ \E p \in Subject : MouseOut(p)
    \/ \E p \in Subject, zoomValue \in ZoomValues : ZoomView(p, zoomValue, FALSE)
    \/ \E p \in Subject : ResizeImage(p, SizeOf(2), "none")
    \/ \E p \in Subject : \E size \in ResultSizes(p) : AlignImage(p, size, TRUE, FALSE)
    \/ \E p \in Subject : ApplyCropBox(p, FALSE, FALSE)
    \/ \E p \in Subject : ResetImage(p, FALSE)
    \/ \E p \in Subject : StatusEffect(p, FALSE)

SpecTools == InitTools /\ [][NextTools]_vars

\* Every operation of a panel, from pan mode with three control points on each
\* panel, followed for MaxOps operations: the mode buttons and the mode effect, the pointer events of one panel
\* at two opposite corners, its tools and menu commands, a further load and its
\* callback.
ZoomIn == CHOOSE z \in ZoomValues : z.n > z.d

\* The number of operations the panel specification follows.
MaxOps == 7

InitPanel ==
    LoadedWithin(FirstOrder, "pan",
                 [p \in Panels |-> Placed(LoadedProps(FirstOrder[p]), Triangle)],
                 MaxOps)

NextPanel ==
    \/ \E m \in Modes : SetMode(m)
    \/ \E p \in Panels : ModeEffect(p, FALSE)
    \/ \E p \in Subject, pos \in Steps : MouseMove(p, pos.x, pos.y, FALSE)
    \/ \E p \in Subject : MouseDown(p)
    \/ \E p \in Subject : MouseUp(p)
    \/ \E p \in Subject : MouseOut(p)
    \/ \E p \in Subject : ZoomView(p, ZoomIn, FALSE)
    \/ \E p \in Subject : FitView(p, FALSE)
    \/ \E p \in Subject : FullView(p, FALSE)
    \/ \E p \in Subject : ResizeImage(p, SizeOf(2), "none")
    \/ \E p \in Subject : \E size \in ResultSizes(p) : AlignImage(p, size, TRUE, FALSE)
    \/ \E p \in Subject : ApplyCropBox(p, FALSE, FALSE)
    \/ \E p \in Subject : ResetImage(p, FALSE)
    \/ \E p \in Subject : SyncImages(p, FALSE)
    \/ \E p \in Subject : ToggleOverlay(p)
    \/ \E p \in Subject : DownloadImage(p, FALSE)
    \/ \E p \in Subject : DownloadCallback(p)
    \/ \E p \in Subject : RequestUpdate(p)
    \/ \E p \in Subject : StatusEffect(p, FALSE)
    \/ \E p \in Subject : LoadImage(p)
    \/ \E l \in pending, resp \in Responses : LoadCallback(l, resp, FALSE)
    \/ \E p \in Subject : RemoveImage(p)

SpecPanel == InitPanel /\ [][NextPanel]_vars

\* ------------------------------------------------------------------ life cycle

\* A load of panel p is in flight.
InFlight(p) == \E l \in pending : l.p = p

\* The status changes the state machine lists, with the operation that makes
\* them; a load command is taken to move a panel to loading as the load status
\* does.
Listed(s, t, op) ==
    \/ t = "error"
    \/ t = "empty" /\ op.op = "remove"
    \/ s = "empty" /\ t = "load" /\ op.op = "requestLoad"
    \/ s = "load" /\ t = "loading" /\ op.op = "statusEffect"
    \/ t = "loading" /\ op.op = "load"
    \/ s = "loading" /\ t = "loaded" /\ op.op = "loadCallback" /\ op.arg = "ok"
    \/ s = "loading" /\ t = "empty" /\ op.op = "loadCallback" /\ op.arg = "error"
    \/ s = "loaded" /\ t = "update" /\ op.op = "requestUpdate"
    \/ s = "update" /\ t = "loaded" /\ op.op = "statusEffect"
    \/ s = "loaded" /\ t = "loading" /\ op.op \in {"align", "crop", "resize"}
    \/ s = "loading" /\ t = "loaded" /\ op.op \in {"align", "crop", "resize"}
    \/ s = "loaded" /\ t = "downloading" /\ op.op = "download"
    \/ s = "downloading" /\ t = "loaded" /\ op.op = "downloadCallback"
    \/ s = "error" /\ t = "loaded" /\ op.op = "reset"

\* C1 (as claimed): every change of a panel's status is one of the listed
\* transitions, made by the operation the list names for it; in particular a
\* panel does not go from loading to loaded before the loader's callback, nor
\* from empty to loaded.
CX_C1 ==
    [][\A p \in Panels :
          status'[p] # status[p] => Listed(status[p], status'[p], last')]_vars

\* C2 (as claimed): a panel without an image is empty (or waiting for its first
\* load to arrive), and an empty panel has no image: the status is never
\* loaded, downloading, update or error while the image is null, and never
\* empty while the image is not null.
CX_C2 ==
    \A p \in Panels :
        /\ image[p] = NULL => status[p] \in {"empty", "load", "loading"}
        /\ status[p] = "empty" => image[p] = NULL

\* C8 (as claimed): when the loader's callback delivers a failure, with or
\* without props, the status becomes empty, the error message is emitted, and
\* source, image and properties stay as they were.
CX_C8 ==
    [][\A p \in Panels :
          (last'.op = "loadCallback" /\ last'.p = p
             /\ last'.arg \in {"error", "errorNoProps"})
          => /\ status'[p] = "empty"
             /\ message' = "loadError"
             /\ source'[p] = source[p] /\ image'[p] = image[p] /\ props'[p] = props[p]]_vars

\* C9 (as claimed): from the start of a load until the loader's callback, the
\* status is loading: the load command and the load status both leave the panel
\* loading, and no run of the status effect (its cleanup included) moves a
\* panel with a load in flight out of loading.
CX_C9 ==
    [][\A p \in Panels :
          /\ (last'.op = "load" /\ last'.p = p) => status'[p] = "loading"
          /\ (last'.op = "statusEffect" /\ last'.p = p /\ status[p] = "load")
                => status'[p] = "loading"
          /\ (last'.op = "statusEffect" /\ last'.p = p /\ status[p] = "loading"
                /\ InFlight(p))
                => status'[p] = "loading"]_vars

\* C10 (as claimed): the callback of a load that is not the panel's most
\* recently requested one (the panel was removed, or a newer load was started)
\* changes neither status, source, image nor properties.
CX_C10 ==
    [][\A p \in Panels :
          (last'.op = "loadCallback" /\ last'.p = p /\ last'.id # latest[p])
          => /\ status'[p] = status[p] /\ source'[p] = source[p]
             /\ image'[p] = image[p] /\ props'[p] = props[p]]_vars

\* -------------------------------------------------------------------- crop box

\* The step is a mouse up or a mouse out of panel p handled by _endCropBox.
EndsCropBox(p) ==
    last'.op \in {"up", "out"} /\ last'.arg = "_endCropBox" /\ last'.p = p

\* The box and the image [0, dims.w] x [0, dims.h] share an area.
BoxOverlaps(box, dims) ==
    /\ box.x < dims.w /\ box.x + box.w > 0
    /\ box.y < dims.h /\ box.y + box.h > 0

\* The intersection of the box with the image.
BoxIntersection(box, dims) ==
    [x |-> Max(box.x, 0), y |-> Max(box.y, 0),
     w |-> Min(box.x + box.w, dims.w) - Max(box.x, 0),
     h |-> Min(box.y + box.h, dims.h) - Max(box.y, 0)]

\* The box lies beyond an edge of the image, sharing not even a border with it.
BoxOutside(box, dims) ==
    \/ box.x > dims.w \/ box.x + box.w < 0
    \/ box.y > dims.h \/ box.y + box.h < 0

\* C4 (as claimed): on mouse up/out in crop mode, on a loaded panel whose select
\* box has positive width and height and overlaps the image, the stored box
\* becomes the intersection of the box with the image, wherever the box lies.
CX_C4 ==
    [][\A p \in Panels :
          (/\ EndsCropBox(p)
           /\ image[p] # NULL /\ status[p] = "loaded"
           /\ pointer[p].selectBox.w > 0 /\ pointer[p].selectBox.h > 0
           /\ BoxOverlaps(pointer[p].selectBox, props[p].image_dims))
          => pointer'[p].selectBox =
                BoxIntersection(pointer[p].selectBox, props[p].image_dims)]_vars

\* C5 (as claimed): on mouse up/out in crop mode, a box outside the image, a box
\* of zero width or height, and any box on a panel without an image become the
\* empty box, and the stored box never has a negative width or height.
CX_C5 ==
    [][\A p \in Panels :
          EndsCropBox(p)
          => /\ pointer'[p].selectBox.w >= 0 /\ pointer'[p].selectBox.h >= 0
             /\ (\/ image[p] = NULL
                 \/ pointer[p].selectBox.w = 0 \/ pointer[p].selectBox.h = 0
                 \/ BoxOutside(pointer[p].selectBox, props[p].image_dims))
                => pointer'[p].selectBox = EmptyBox]_vars

\* ------------------------------------------------------------------- register

\* The errors alignImages answers with when it rejects the correspondence set.
ValidationErrors ==
    {"emptyCanvas", "mismatchedControlPoints", "missingControlPoints",
     "collinearControlPoints"}

\* C3 (as claimed): an align that is rejected for unequal, too few or collinear
\* control points (or a panel without an image) emits that error and changes
\* nothing of either panel: status, image, source, properties and control
\* points are what they were before the call.
CX_C3 ==
    [][(last'.op = "align" /\ last'.arg \in ValidationErrors)
       => /\ message' = last'.arg
          /\ status' = status /\ image' = image /\ source' = source
          /\ props' = props
          /\ \A p \in Panels : pointer'[p].points = pointer[p].points]_vars

\* ------------------------------------------------------------- control points

\* The cursor of panel p.
Cursor(p) == Point(pointer[p].x, pointer[p].y)

\* The step is a mouse down of panel p handled by _selectControlPoint.
SelectsControlPoint(p) ==
    last'.op = "down" /\ last'.arg = "_selectControlPoint" /\ last'.p = p

\* C6: a panel never holds more than controlPtMax control points; a mouse down
\* on the rendered image, away from every control point, on a panel that holds
\* controlPtMax of them leaves the points and the selected index as they were
\* and emits maxControlPoints.
C6_MaxControlPoints ==
    /\ [](\A p \in Panels : Len(pointer[p].points) <= controlPtMax)
    /\ [][\A p \in Panels :
            (/\ SelectsControlPoint(p)
             /\ Len(pointer[p].points) = controlPtMax
             /\ OnImage(p, Cursor(p))
             /\ Near(p, pointer[p].points, Cursor(p)) = {})
            => /\ pointer'[p].points = pointer[p].points
               /\ pointer'[p].index = pointer[p].index
               /\ message' = "maxControlPoints"]_vars

\* A mouse down at the maximum, on the image and away from every point, has
\* been refused.
W_C6 ==
    /\ last.op = "down" /\ last.arg = "_selectControlPoint"
    /\ Len(pointer[last.p].points) = controlPtMax
    /\ OnImage(last.p, Cursor(last.p))
    /\ Near(last.p, pointer[last.p].points, Cursor(last.p)) = {}
    /\ message = "maxControlPoints"

\* ------------------------------------------------------------ handler bundles

\* The handler sets of the three modes; crop mode has two, with the select-box
\* or the move-box handler for mouse move.
Bundles == {PanBundle, SelectBundle, CropBundle, MoveBoxBundle}

\* C7: the four handlers bound to a panel are always those of one bundle, in
\* every state that mode changes, mode-effect runs and pointer events reach.
C7_OneBundle == \A p \in Panels : methods[p] \in Bundles

\* After a switch to crop mode a mouse down inside the committed box has bound
\* the move-box handlers.
W_C7 ==
    /\ last.op = "down" /\ last.arg = "_startCropBox"
    /\ mode = "crop" /\ modeRan[last.p] = "crop"
    /\ methods[last.p] = MoveBoxBundle

\* --------------------------------------------------------------------- export

\* C11 (as claimed): the blob callback of an export finds the panel as the
\* export left it or leaves its status alone: on a panel that was removed (or
\* reset) while the export was in flight the callback does not change the
\* status, and a removed panel stays empty.
CX_C11 ==
    [][\A p \in Panels :
          (last'.op = "downloadCallback" /\ last'.p = p /\ status[p] # "downloading")
          => status'[p] = status[p]]_vars

\* ----------------------------------------------------------------- exceptions

\* C12 (as claimed): an operation of a panel in which a step threw (a render,
\* a crop, an export) ends with the panel's status error; a later
\* setStatus('loaded') of the same operation does not overwrite it.
CX_C12 ==
    [][\A p \in Panels :
          (last'.threw /\ last'.p = p) => status'[p] = "error"]_vars

\* C13 (as claimed): a panel whose status is error keeps it until reset or
\* remove is invoked on it; no other command or callback changes it (a new
\* load of the panel is left aside here).
CX_C13 ==
    [][\A p \in Panels :
          (/\ status[p] = "error"
           /\ ~(last'.p = p /\ last'.op \in {"reset", "remove", "load", "loadCallback"}))
          => status'[p] = "error"]_vars

\* ---------------------------------------------------------------------- align

\* The step is an align invoked on panel p with the given outcome.
Aligns(p, outcome) == last'.op = "align" /\ last'.p = p /\ last'.arg = outcome

\* C14 (as claimed): when the solver reports a failure during an align on a
\* loaded panel, the error is emitted and the panel's status ends loaded, its
\* image and dimensions kept.
CX_C14 ==
    [][\A p \in Panels :
          (Aligns(p, "solverError") /\ status[p] = "loaded")
          => /\ message' = "solverError"
             /\ status'[p] = "loaded"
             /\ image'[p] = image[p] /\ props'[p] = props[p]]_vars

\* C15 (as claimed): a successful align of panel p leaves p with the warped
\* raster as its image, image_dims of the result's size, render_dims the fit
\* of the result into base_dims at the origin, status loaded, and p marked
\* aligned.
CX_C15 ==
    [][\A p \in Panels :
          (Aligns(p, "none") /\ ~last'.threw)
          => /\ image'[p] = Raster(image[p].id, "warped")
             /\ props'[p].image_dims.w = last'.size.w
             /\ props'[p].image_dims.h = last'.size.h
             /\ props'[p].render_dims = Fit(last'.size, props[p].base_dims)
             /\ status'[p] = "loaded"
             /\ aligned'[p]]_vars

\* ------------------------------------------------------------------- matrices

\* The number of times matrix m occurs in the list of releases.
Releases(m, released) == Cardinality({i \in 1..Len(released) : released[i] = m})

\* C16 (as claimed): every matrix a resize acquired has been released exactly
\* once when it returns, whether it succeeded or a step of it threw.
CX_C16 ==
    [][last'.op = "resize"
       => \A m \in {"src", "dst"} :
             Releases(m, last'.released) = (IF m \in last'.acquired THEN 1 ELSE 0)]_vars

\* ----------------------------------------------------------------------- crop

\* The step is the crop command on panel p.
Crops(p) == last'.op = "crop" /\ last'.p = p

\* C17: a crop of a loaded panel with a committed box of positive width and
\* height, in which nothing throws, leaves the cropped raster as the image,
\* image_dims of the box's width and height, render_dims the fit of the box
\* into base_dims at the origin, the select box empty and the status loaded.
C17_CropApplies ==
    [][\A p \in Panels :
          (/\ Crops(p) /\ ~last'.threw
           /\ status[p] = "loaded"
           /\ pointer[p].selectBox.w > 0 /\ pointer[p].selectBox.h > 0)
          => /\ image'[p] = Raster(image[p].id, "cropped")
             /\ props'[p].image_dims.w = pointer[p].selectBox.w
             /\ props'[p].image_dims.h = pointer[p].selectBox.h
             /\ props'[p].render_dims =
                   [x |-> 0, y |-> 0,
                    w |-> scaleToFit(pointer[p].selectBox.w, pointer[p].selectBox.h,
                                     props[p].base_dims.w, props[p].base_dims.h).w,
                    h |-> scaleToFit(pointer[p].selectBox.w, pointer[p].selectBox.h,
                                     props[p].base_dims.w, props[p].base_dims.h).h]
             /\ pointer'[p].selectBox = EmptyBox
             /\ status'[p] = "loaded"]_vars

\* A box that is not square has been cropped.
W_C17 ==
    /\ last.op = "crop" /\ last.arg = "none" /\ ~last.threw
    /\ image[last.p].tag = "cropped"
    /\ props[last.p].image_dims.w # props[last.p].image_dims.h
    /\ props[last.p].image_dims.w > 0 /\ props[last.p].image_dims.h > 0
    /\ pointer[last.p].selectBox = EmptyBox
    /\ status[last.p] = "loaded"

\* C18: a crop invoked while the select box has zero width or zero height
\* changes nothing: the panel's status, image, image_dims, render_dims and
\* control points and the message are what they were before the call.
CX_C18 ==
    [][\A p \in Panels :
          (/\ Crops(p)
           /\ (pointer[p].selectBox.w = 0 \/ pointer[p].selectBox.h = 0))
          => /\ status'[p] = status[p]
             /\ image'[p] = image[p]
             /\ props'[p].image_dims = props[p].image_dims
             /\ props'[p].render_dims = props[p].render_dims
             /\ pointer'[p].points = pointer[p].points
             /\ message' = message]_vars

\* ------------------------------------------------------------ point conversion

\* The image-space position of canvas position pos of panel p: the render
\* offset subtracted, then render space converted to image space.
ImagePoint(p, pos) ==
    LET rd == props[p].render_dims
    IN  scalePoint(Point(pos.x - rd.x, pos.y - rd.y), rd, props[p].image_dims)

CX_C20 ==
    [][\A p \in Panels :
          (last'.op = "modeEffect" /\ last'.p = p)
          => overlayLayer1'[p] = clear]_vars

\* ------------------------------------------------------------- crop mode entry

\* The step is the mode effect of panel p.
RunsModeEffect(p) == last'.op = "modeEffect" /\ last'.p = p

\* The step is a mouse down of panel p handled by _startCropBox.
StartsCropBox(p) == last'.op = "down" /\ last'.arg = "_startCropBox" /\ last'.p = p

\* C21: the mode effect that enters crop mode on a panel with an image leaves
\* the image equal to the source, image_dims of the source's width and height,
\* render_dims the fit of source_dims into base_dims at the origin and the
\* aligned flag cleared; and a crop drag on a panel that had an image at mode
\* entry starts at render offset (0,0).
C21_CropEntryResets ==
    /\ [][\A p \in Panels :
            (RunsModeEffect(p) /\ mode = "crop" /\ image[p] # NULL)
            => /\ image'[p] = source[p]
               /\ props'[p].image_dims.w = props[p].source_dims.w
               /\ props'[p].image_dims.h = props[p].source_dims.h
               /\ props'[p].render_dims =
                     [x |-> 0, y |-> 0,
                      w |-> scaleToFit(props[p].source_dims.w, props[p].source_dims.h,
                                       props[p].base_dims.w, props[p].base_dims.h).w,
                      h |-> scaleToFit(props[p].source_dims.w, props[p].source_dims.h,
                                       props[p].base_dims.w, props[p].base_dims.h).h]
               /\ ~aligned'[p]]_vars
    /\ [][\A p \in Panels :
            (StartsCropBox(p) /\ bound[p].image)
            => props[p].render_dims.x = 0 /\ props[p].render_dims.y = 0]_vars

\* Crop mode has been entered on a panel with an image, and a crop drag has
\* started on it.
W_C21 ==
    /\ last.op = "down" /\ last.arg = "_startCropBox"
    /\ bound[last.p].image
    /\ mode = "crop" /\ modeRan[last.p] = "crop"
    /\ props[last.p].render_dims.x = 0 /\ props[last.p].render_dims.y = 0
    /\ pointer[last.p].selected.set

\* C22: the mode effect that takes a panel from select mode to crop mode keeps
\* its control points, the same in the same order, and leaves its select box
\* empty, whether or not the panel holds an image and whether or not a drag is
\* in progress.
C22_SelectToCrop ==
    [][\A p \in Panels :
          (RunsModeEffect(p) /\ modeRan[p] = "select" /\ mode = "crop")
          => /\ pointer'[p].points = pointer[p].points
             /\ pointer'[p].selectBox = EmptyBox]_vars

\* A panel with a control point and a drag in progress has gone from select
\* mode to crop mode.
W_C22 ==
    /\ last.op = "modeEffect" /\ last.arg = "crop"
    /\ modeRan[last.p] = "crop"
    /\ pointer[last.p].points # <<>>
    /\ pointer[last.p].selected.set
    /\ pointer[last.p].selectBox = EmptyBox

\* --------------------------------------------------------------------- remove

\* C23: remove leaves the panel empty, with no image and no source, no control
\* points, an empty select box and no selected index; and an empty panel stays
\* empty until a load is started on it.
CX_C23 ==
    /\ [][\A p \in Panels :
            (last'.op = "remove" /\ last'.p = p)
            => /\ status'[p] = "empty"
               /\ image'[p] = NULL /\ source'[p] = NULL
               /\ pointer'[p].points = <<>>
               /\ pointer'[p].selectBox = EmptyBox
               /\ pointer'[p].index = -1]_vars
    /\ [][\A p \in Panels :
            (status[p] = "empty" /\ status'[p] # "empty")
            => last'.p = p /\ last'.op \in {"requestLoad", "load"}]_vars

\* ---------------------------------------------------------------------- reset

\* The step is the reset command on panel p.
Resets(p) == last'.op = "reset" /\ last'.p = p

\* C24: a reset of a loaded panel, whatever crops, resizes, alignments, pans and
\* zooms came before, leaves the image equal to the source, image_dims of the
\* source's width and height, render_dims the fit of source_dims into base_dims
\* at the origin, the select box empty and the status loaded.
C24_ResetRestores ==
    [][\A p \in Panels :
          (Resets(p) /\ status[p] = "loaded")
          => /\ image'[p] = source[p]
             /\ props'[p].image_dims.w = props[p].source_dims.w
             /\ props'[p].image_dims.h = props[p].source_dims.h
             /\ props'[p].render_dims =
                   [x |-> 0, y |-> 0,
                    w |-> scaleToFit(props[p].source_dims.w, props[p].source_dims.h,
                                     props[p].base_dims.w, props[p].base_dims.h).w,
                    h |-> scaleToFit(props[p].source_dims.w, props[p].source_dims.h,
                                     props[p].base_dims.w, props[p].base_dims.h).h]
             /\ pointer'[p].selectBox = EmptyBox
             /\ status'[p] = "loaded"]_vars

\* A cropped image has been reset to its source.
W_C24 ==
    /\ last.op = "reset" /\ last.arg = "cropped"
    /\ image[last.p] = source[last.p]
    /\ image[last.p].tag = "orig"
    /\ props[last.p].image_dims.w = props[last.p].source_dims.w
    /\ props[last.p].render_dims.x = 0
    /\ status[last.p] = "loaded"

\* --------------------------------------------------------------------- source

\* C25: the source and source_dims of a panel change only in the callback of a
\* successful load, in a sync (saveState) and in a remove of that panel: every
\* other operation leaves them as they were.
C25_SourceKept ==
    [][\A p \in Panels :
          (source'[p] # source[p] \/ props'[p].source_dims # props[p].source_dims)
          => /\ last'.p = p
             /\ \/ last'.op = "loadCallback" /\ last'.arg = "ok"
                \/ last'.op \in {"saveState", "remove"}]_vars

\* A resized image has been made the source by a sync.
W_C25 ==
    /\ last.op = "saveState"
    /\ source[last.p].tag = "resized"
    /\ props[last.p].source_dims.w = props[last.p].image_dims.w
    /\ props[last.p].source_dims.h = props[last.p].image_dims.h

\* --------------------------------------------------------------- other panel

\* What the claim lists of a panel: its status, image, source, properties,
\* control points, select box and selected index.
PanelState(p) ==
    <<status[p], image[p], source[p], props[p],
      pointer[p].points, pointer[p].selectBox, pointer[p].index>>

\* C26: a pointer event, an overlay toggle, a menu command, an alignment or an
\* effect of one panel leaves the status, image, source, properties, control
\* points, select box and selected index of the other panel as they were.
C26_OtherPanelKept ==
    [][\A p \in Panels :
          last'.p = p => PanelState(Other(p))' = PanelState(Other(p))]_vars

\* A panel has been aligned onto the other, which still holds its image and
\* its three control points.
W_C26 ==
    /\ last.op = "align" /\ last.arg = "none"
    /\ image[last.p].tag = "warped"
    /\ image[Other(last.p)].tag = "orig"
    /\ Len(pointer[Other(last.p)].points) = MinControlPoints

\* --------------------------------------------------------------------- scaler
\* The scaler on its own: a panel whose image, canvas and pointer take every
\* value up to ScaleSide, on which the pointer position is converted from image
\* space to render space and back, and the image is fitted to the canvas.

\* The largest width or height of a rectangle, and the largest coordinate.
ScaleSide == 4
Sides == 1 .. ScaleSide
Coords == 0 .. ScaleSide

\* The panel the conversions are made on.
Scaled == "panel1"

InitScaler ==
    \E iw \in Sides, ih \in Sides, rw \in Sides, rh \in Sides, x \in Coords, y \in Coords :
        /\ status = [p \in Panels |-> "loaded"]
        /\ image = [p \in Panels |-> Raster(FirstOrder[p], "orig")]
        /\ source = [p \in Panels |-> Raster(FirstOrder[p], "orig")]
        /\ layer = [p \in Panels |-> Raster(FirstOrder[p], "orig")]
        /\ props = [p \in Panels |->
                      IF p = Scaled
                      THEN [LoadedProps(FirstOrder[p]) EXCEPT
                               !.source_dims = [w |-> iw, h |-> ih],
                               !.image_dims = [w |-> iw, h |-> ih],
                               !.render_dims = [x |-> 0, y |-> 0, w |-> rw, h |-> rh],
                               !.base_dims = [w |-> rw, h |-> rh]]
                      ELSE LoadedProps(FirstOrder[p])]
        /\ pointer = [p \in Panels |->
                        IF p = Scaled THEN [InitPointer EXCEPT !.x = x, !.y = y]
                        ELSE InitPointer]
        /\ methods = [p \in Panels |-> PanBundle]
        /\ aligned = [p \in Panels |-> FALSE]
        /\ mode = "pan"
        /\ message = "none"
        /\ effStatus = [p \in Panels |-> "loaded"]
        /\ modeRan = [p \in Panels |-> "pan"]
        /\ bound = [p \in Panels |-> [image |-> FALSE, status |-> "empty"]]
        /\ pending = {}
        /\ exporting = [p \in Panels |-> 0]
        /\ nextId = 2
        /\ overlayLayer1 = [p \in Panels |-> drawControlPoints(<<>>)]
        /\ latest = FirstOrder
        /\ magnifierLayer = [p \in Panels |-> NoPreview]
        /\ editor = InitEditor /\ slideshow = InitSlideshow /\ img = InitImage
        /\ last = FirstOp("loadCallback", "panel2", "ok", FirstOrder["panel2"], Unbounded)

\* Both rectangles of a conversion have a positive width and height.
Positive(p) ==
    /\ props[p].image_dims.w > 0 /\ props[p].image_dims.h > 0
    /\ props[p].render_dims.w > 0 /\ props[p].render_dims.h > 0

\* scalePoint(panel.pointer, image_dims, render_dims): the pointer position is
\* converted; the list of points holds the result.
ScaleForth(p) ==
    /\ Settled
    /\ Positive(p)
    /\ pointer[p].points = <<>>
    /\ pointer' = [pointer EXCEPT ![p].points =
                      <<scalePoint(pointer[p], props[p].image_dims, props[p].render_dims)>>]
    /\ last' = Op("scalePoint", p, "forth")
    /\ UNCHANGED <<status, image, source, layer, props, methods, aligned, mode, message,
                   effStatus, modeRan, bound, pending, exporting, nextId, overlayLayer1,
                   latest>>
    /\ UNCHANGED magnifierLayer
    /\ UNCHANGED Widgets

\* scalePoint(pt, render_dims, image_dims): the converted point is converted
\* back, and kept after it.
ScaleBack(p) ==
    /\ Settled
    /\ Positive(p)
    /\ Len(pointer[p].points) = 1
    /\ pointer' = [pointer EXCEPT ![p].points =
                      Append(@, scalePoint(@[1], props[p].render_dims, props[p].image_dims))]
    /\ last' = Op("scalePoint", p, "back")
    /\ UNCHANGED <<status, image, source, layer, props, methods, aligned, mode, message,
                   effStatus, modeRan, bound, pending, exporting, nextId, overlayLayer1,
                   latest>>
    /\ UNCHANGED magnifierLayer
    /\ UNCHANGED Widgets

NextScaler ==
    \/ ScaleForth(Scaled)
    \/ ScaleBack(Scaled)
    \/ pointer[Scaled].points = <<>> /\ FitView(Scaled, FALSE)

SpecScaler == InitScaler /\ [][NextScaler]_vars

\* The pointer position has been converted and converted back.
RoundTrip(p) == Len(pointer[p].points) = 2
\* The distance on each axis between the position and its round trip.
OffX(p) == Abs(pointer[p].points[2].x - pointer[p].x)
OffY(p) == Abs(pointer[p].points[2].y - pointer[p].y)

FitsLargest(d, src, max) ==
    /\ d.w <= max.w /\ d.h <= max.h
    /\ \/ d.w = max.w /\ 2 * Abs(d.h * src.w - src.h * d.w) <= src.w
       \/ d.h = max.h /\ 2 * Abs(d.w * src.h - src.w * d.h) <= src.h

\* C28: for a source of positive width and height and a fit target, the
\* rectangle scaleToFit returns is no wider and no higher than the target, has
\* the source's proportions up to integer rounding, and touches the target's
\* width or its height.
C28_FitsLargest ==
    [][\A p \in Panels :
          (last'.op = "fit" /\ last'.p = p) =>
              FitsLargest(props'[p].render_dims, props[p].image_dims,
                          props[p].base_dims)]_vars

\* An image wider than the canvas in proportion has been fitted: it takes the
\* canvas's width and a part of its height.
W_C28 ==
    /\ last.op = "fit"
    /\ props[last.p].image_dims.w > props[last.p].image_dims.h
    /\ props[last.p].base_dims.w < props[last.p].base_dims.h
    /\ props[last.p].render_dims.w = props[last.p].base_dims.w
    /\ props[last.p].render_dims.h > 0
    /\ props[last.p].render_dims.h < props[last.p].base_dims.h

\* ------------------------------------------------------------------------ pan

\* A pointer event of the given kinds is handled on panel p in pan mode.
PanEvent(p, kinds) == mode = "pan" /\ last'.p = p /\ last'.op \in kinds

\* C29: in pan mode a move with an anchor set translates render_dims.x and
\* render_dims.y by the distance of the pointer from the anchor and makes the
\* pointer the anchor; the size of the view, the other properties, the image,
\* the source, the status and the control points stay as they were; a mouse
\* down, up or out changes nothing of the panel but the anchor.
C29_PanTranslates ==
    [][\A p \in Panels :
          /\ (PanEvent(p, {"move"}) /\ pointer[p].selected.set) =>
                /\ props'[p].render_dims =
                      [props[p].render_dims EXCEPT
                          !.x = @ + pointer'[p].x - pointer[p].selected.x,
                          !.y = @ + pointer'[p].y - pointer[p].selected.y]
                /\ pointer'[p].selected = Anchor(pointer'[p].x, pointer'[p].y)
                /\ [props'[p] EXCEPT !.render_dims = props[p].render_dims] = props[p]
                /\ status'[p] = status[p]
                /\ image'[p] = image[p] /\ source'[p] = source[p]
                /\ pointer'[p].points = pointer[p].points
                /\ pointer'[p].selectBox = pointer[p].selectBox
          /\ PanEvent(p, {"down", "up", "out"}) => PanelState(p)' = PanelState(p)]_vars

\* A drag has moved the view of a loaded panel with control points by the
\* width and the height of the canvas.
W_C29 ==
    /\ mode = "pan" /\ last.op = "move" /\ last.arg = "_panImage"
    /\ pointer[last.p].selected.set
    /\ props[last.p].render_dims.x = BaseW /\ props[last.p].render_dims.y = BaseH
    /\ Len(pointer[last.p].points) = MinControlPoints

\* ------------------------------------------------------- selecting a point

\* The canvas position at which a stored, image-space control point is shown:
\* image space converted to render space, then the render offset added.
RenderPoint(p, ctrlPt) ==
    LET rd == props[p].render_dims
        pt == scalePoint(ctrlPt, props[p].image_dims, rd)
    IN  Point(pt.x + rd.x, pt.y + rd.y)

\* The indices of the control points shown within ptrRadius of the cursor.
Shown(p) ==
    {i \in 0..(Len(pointer[p].points) - 1) :
        LET c == RenderPoint(p, pointer[p].points[i + 1])
        IN  inRange(pointer[p].x, pointer[p].y, c.x, c.y, ptrRadius)}

SelectEvent(p, kinds) == mode = "select" /\ last'.p = p /\ last'.op \in kinds

\* The points of panel p other than the selected one are as they were, and so
\* is their number.
OthersKept(p) ==
    /\ Len(pointer'[p].points) = Len(pointer[p].points)
    /\ \A i \in 1..Len(pointer[p].points) :
          i # pointer[p].index + 1 => pointer'[p].points[i] = pointer[p].points[i]

\* C31: in select mode a move changes at most the coordinates of the selected
\* point, and no point when none is selected, no anchor is set or the pointer is
\* outside the rendered image; a mouse up or out sets the selected index to -1
\* and leaves the points as they were; so only a mouse down changes their number.
C31_SelectFrame ==
    [][\A p \in Panels :
          /\ SelectEvent(p, {"move"}) =>
                /\ OthersKept(p)
                /\ (\/ pointer[p].index < 0
                    \/ ~pointer[p].selected.set
                    \/ ~OnImage(p, Point(pointer'[p].x, pointer'[p].y)))
                   => pointer'[p].points = pointer[p].points
          /\ SelectEvent(p, {"up", "out"}) =>
                /\ pointer'[p].index = -1
                /\ pointer'[p].points = pointer[p].points]_vars

\* A selected point, one of several, has been dragged: the cursor is the new
\* anchor.
W_C31 ==
    /\ mode = "select" /\ last.op = "move" /\ last.arg = "_moveControlPoint"
    /\ pointer[last.p].index >= 0
    /\ Len(pointer[last.p].points) >= 2
    /\ pointer[last.p].selected = Anchor(pointer[last.p].x, pointer[last.p].y)

\* ------------------------------------------------------------ crop box in image space

\* The image-space length of a canvas length on each axis of panel p: render
\* space converted to image space.
ImageSize(p, w, h) ==
    LET pt == scalePoint(Point(w, h), props[p].render_dims, props[p].image_dims)
    IN  [w |-> pt.x, h |-> pt.y]

\* The box between the anchor and the cursor c of panel p, in image space: the
\* corner nearest the origin, and the distances between the two on each axis.
NormalizedBox(p, c) ==
    LET a == pointer[p].selected
        corner == ImagePoint(p, Point(Min(a.x, c.x), Min(a.y, c.y)))
        size == ImageSize(p, Abs(c.x - a.x), Abs(c.y - a.y))
    IN  [x |-> corner.x, y |-> corner.y, w |-> size.w, h |-> size.h]

\* A move is handled by the select variant of the crop handlers on panel p, with
\* an anchor set.
SelectsCropBox(p) ==
    /\ mode = "crop" /\ last'.p = p
    /\ last'.op = "move" /\ last'.arg = "_selectCropBox"
    /\ pointer[p].selected.set

ToggleMagnify(p) ==
    /\ Settled
    /\ HasDims(p)
    /\ pointer' = [pointer EXCEPT ![p].magnify = ~@]
    /\ magnifierLayer' = [magnifierLayer EXCEPT ![p] =
                             MagnifierEffect(@, pointer[p],
                                             [pointer[p] EXCEPT !.magnify = ~@])]
    /\ last' = Op("magnify", p, "none")
    /\ UNCHANGED <<status, image, source, layer, props, methods, aligned, mode, message,
                   effStatus, modeRan, bound, pending, exporting, nextId, overlayLayer1,
                   latest>>
    /\ UNCHANGED Widgets

\* The magnifier in pan and in crop mode: the pointer events of one panel at
\* the corners and the centre of the canvas, and the shift key.
InitMagnify == \E m \in ToolModes : Loaded(FirstOrder, m, NoPoints)

NextMagnify ==
    \/ \E p \in Subject, pos \in Corners : MouseMove(p, pos.x, pos.y, FALSE)
    \/ \E p \in Subject : MouseDown(p)
    \/ \E p \in Subject : MouseUp(p)
    \/ \E p \in Subject : MouseOut(p)
    \/ \E p \in Subject : ToggleMagnify(p)

SpecMagnify == InitMagnify /\ [][NextMagnify]_vars

\* A crop box is being dragged on panel p: crop mode, with an anchor set.
CropDrag(p) == mode = "crop" /\ pointer[p].selected.set

\* C33: a pointer move during the drag of a crop box draws no preview, also
\* with pointer.magnify set; a move outside such a drag draws the preview at
\* the cursor when pointer.magnify is set; and with pointer.magnify not set the
\* magnifier canvas shows nothing.
CX_C33 ==
    [][\A p \in Panels :
          /\ (last'.op = "move" /\ last'.p = p /\ pointer'[p].magnify) =>
                IF CropDrag(p)
                THEN magnifierLayer'[p] # magnify(pointer'[p])
                ELSE magnifierLayer'[p] = magnify(pointer'[p])
          /\ ~pointer'[p].magnify => magnifierLayer'[p] = NoPreview]_vars

\* ------------------------------------------------- control points in crop mode

\* C34: a pointer event handled in crop mode (down, move of either variant, up,
\* out) leaves the stored control points of the panel as they were.
CX_C34 ==
    [][\A p \in Panels :
          (mode = "crop" /\ last'.p = p /\ last'.op \in {"down", "move", "up", "out"})
          => pointer'[p].points = pointer[p].points]_vars

\* ------------------------------------------------------ points inside the image

\* The point lies inside an image of the given dimensions.
InsideImage(pt, dims) ==
    /\ 0 <= pt.x /\ pt.x <= dims.w
    /\ 0 <= pt.y /\ pt.y <= dims.h

\* C35: every stored control point of a panel lies inside the panel's current
\* image: 0 <= x <= image_dims.w and 0 <= y <= image_dims.h.
CX_C35 ==
    \A p \in Panels :
        \A i \in 1..Len(pointer[p].points) :
            InsideImage(pointer[p].points[i], props[p].image_dims)

\* ------------------------------------------------------- image loaded in crop mode
\* One panel is loaded and the other is empty when crop mode is entered; the
\* empty panel is loaded afterwards and a crop box is dragged on it.

\* The panel that is loaded from the start.
Early == "panel2"

InitLate ==
    /\ status = [p \in Panels |-> IF p = Early THEN "loaded" ELSE "empty"]
    /\ image = [p \in Panels |-> IF p = Early THEN Raster(1, "orig") ELSE NULL]
    /\ source = [p \in Panels |-> IF p = Early THEN Raster(1, "orig") ELSE NULL]
    /\ layer = [p \in Panels |-> IF p = Early THEN Raster(1, "orig") ELSE NULL]
    /\ props = [p \in Panels |-> IF p = Early THEN LoadedProps(1) ELSE InitProps]
    /\ pointer = [p \in Panels |-> InitPointer]
    /\ methods = [p \in Panels |-> PanBundle]
    /\ aligned = [p \in Panels |-> FALSE]
    /\ mode = "pan"
    /\ message = "none"
    /\ effStatus = status
    /\ modeRan = [p \in Panels |-> "pan"]
    /\ bound = [p \in Panels |-> [image |-> FALSE, status |-> "empty"]]
    /\ pending = {}
    /\ exporting = [p \in Panels |-> 0]
    /\ nextId = 1
    /\ overlayLayer1 = [p \in Panels |-> clear]
    /\ latest = [p \in Panels |-> IF p = Early THEN 1 ELSE 0]
    /\ magnifierLayer = [p \in Panels |-> NoPreview]
    /\ editor = InitEditor /\ slideshow = InitSlideshow /\ img = InitImage
    /\ last = FirstOp("loadCallback", Early, "ok", 1, Unbounded)

NextLate ==
    \/ SetMode("crop")
    \/ \E p \in Panels : ModeEffect(p, FALSE)
    \/ \E p \in Subject : LoadImage(p)
    \/ \E l \in pending : LoadCallback(l, "ok", FALSE)
    \/ \E p \in Subject : StatusEffect(p, FALSE)
    \/ \E p \in Subject, pos \in Corners : MouseMove(p, pos.x, pos.y, FALSE)
    \/ \E p \in Subject : MouseDown(p)
    \/ \E p \in Subject : MouseUp(p)
    \/ \E p \in Subject : MouseOut(p)

SpecLate == InitLate /\ [][NextLate]_vars

\* C36: in crop mode, on a panel that holds an image and is loaded now, whatever
\* it held when the crop handlers were bound, a mouse up or out on a select box
\* of positive width and height that overlaps the image stores the box clamped
\* to the image.
CX_C36 ==
    [][\A p \in Panels :
          (/\ mode = "crop" /\ last'.op \in {"up", "out"} /\ last'.p = p
           /\ image[p] # NULL /\ status[p] = "loaded"
           /\ pointer[p].selectBox.w > 0 /\ pointer[p].selectBox.h > 0
           /\ BoxOverlaps(pointer[p].selectBox, props[p].image_dims))
          => pointer'[p].selectBox =
                BoxIntersection(pointer[p].selectBox, props[p].image_dims)]_vars

\* ----------------------------------------------------------------------- zoom
\* Zooming in and out of a loaded panel with control points, from every
\* rendered size up to ScaleSide and every render offset up to one pixel.

Offsets == {0 - 1, 0, 1}

InitZoom ==
    \E rw \in Sides, rh \in Sides, rx \in Offsets, ry \in Offsets :
        /\ status = [p \in Panels |-> "loaded"]
        /\ image = [p \in Panels |-> Raster(FirstOrder[p], "orig")]
        /\ source = [p \in Panels |-> Raster(FirstOrder[p], "orig")]
        /\ layer = [p \in Panels |-> Raster(FirstOrder[p], "orig")]
        /\ props = [p \in Panels |->
                      IF p \in Subject
                      THEN [LoadedProps(FirstOrder[p]) EXCEPT
                               !.render_dims = [x |-> rx, y |-> ry, w |-> rw, h |-> rh]]
                      ELSE LoadedProps(FirstOrder[p])]
        /\ pointer = [p \in Panels |->
                        [InitPointer EXCEPT
                            !.points = Placed(LoadedProps(FirstOrder[p]), Triangle)]]
        /\ methods = [p \in Panels |-> PanBundle]
        /\ aligned = [p \in Panels |-> FALSE]
        /\ mode = "pan"
        /\ message = "none"
        /\ effStatus = [p \in Panels |-> "loaded"]
        /\ modeRan = [p \in Panels |-> "pan"]
        /\ bound = [p \in Panels |-> [image |-> FALSE, status |-> "empty"]]
        /\ pending = {}
        /\ exporting = [p \in Panels |-> 0]
        /\ nextId = 2
        /\ overlayLayer1 = [p \in Panels |-> drawControlPoints(pointer[p].points)]
        /\ latest = FirstOrder
        /\ magnifierLayer = [p \in Panels |-> NoPreview]
        /\ editor = InitEditor /\ slideshow = InitSlideshow /\ img = InitImage
        /\ last = FirstOp("loadCallback", "panel2", "ok", FirstOrder["panel2"], Unbounded)

NextZoom ==
    \E p \in Subject, zoomValue \in ZoomValues : ZoomView(p, zoomValue, FALSE)

SpecZoom == InitZoom /\ [][NextZoom]_vars

\* C37: a zoom in or out of a panel whose rendered width and height are at
\* least 1 leaves them at least 1, and leaves image_dims and the stored control
\* points as they were.
C37_ZoomKeepsSize ==
    [][\A p \in Panels :
          (/\ last'.op = "zoom" /\ last'.p = p
           /\ props[p].render_dims.w >= 1 /\ props[p].render_dims.h >= 1)
          => /\ props'[p].render_dims.w >= 1 /\ props'[p].render_dims.h >= 1
             /\ props'[p].image_dims = props[p].image_dims
             /\ pointer'[p].points = pointer[p].points]_vars

\* A zoom has left a view of one pixel by one pixel, on a panel with three
\* control points.
W_C37 ==
    /\ last.op = "zoom"
    /\ props[last.p].render_dims.w = 1 /\ props[last.p].render_dims.h = 1
    /\ Len(pointer[last.p].points) = MinControlPoints

\* ------------------------------------------------- ComparisonEditor requests

\* The history record of an event of a component that is not a panel.
WidgetOp(op, arg, id) == OpOf(op, "none", arg, id)

\* The editor is mounted with reference r.
EditorMount(r) ==
    /\ editor.reference = 0
    /\ editor' = EditorEffect([editor EXCEPT !.reference = r])
    /\ last' = WidgetOp("mount", "none", r)
    /\ UNCHANGED <<PanelVars, slideshow, img>>

\* The reference prop changes: the cleanup of the effect runs, then the effect.
SetReference(r) ==
    /\ editor.mounted /\ r # editor.reference
    /\ editor' = EditorEffect([EditorCleanup(editor) EXCEPT !.reference = r])
    /\ last' = WidgetOp("reference", "none", r)
    /\ UNCHANGED <<PanelVars, slideshow, img>>

\* The editor is unmounted.
EditorUnmount ==
    /\ editor.mounted
    /\ editor' = EditorCleanup(editor)
    /\ last' = WidgetOp("unmount", "none", editor.reference)
    /\ UNCHANGED <<PanelVars, slideshow, img>>

\* router.get resolves for the request made for reference r.
Respond(r, outcome) ==
    /\ r \in editor.requests
    /\ editor' = EditorResponse(editor, r, outcome)
    /\ last' = WidgetOp("response", outcome, r)
    /\ UNCHANGED <<PanelVars, slideshow, img>>

\* The panels before any image is loaded.
NoPanels ==
    /\ status = [p \in Panels |-> "empty"]
    /\ image = [p \in Panels |-> NULL]
    /\ source = [p \in Panels |-> NULL]
    /\ layer = [p \in Panels |-> NULL]
    /\ props = [p \in Panels |-> InitProps]
    /\ pointer = [p \in Panels |-> InitPointer]
    /\ methods = [p \in Panels |-> PanBundle]
    /\ aligned = [p \in Panels |-> FALSE]
    /\ mode = "pan"
    /\ message = "none"
    /\ effStatus = [p \in Panels |-> "empty"]
    /\ modeRan = [p \in Panels |-> "pan"]
    /\ bound = [p \in Panels |-> [image |-> FALSE, status |-> "empty"]]
    /\ pending = {}
    /\ exporting = [p \in Panels |-> 0]
    /\ nextId = 0
    /\ overlayLayer1 = [p \in Panels |-> clear]
    /\ latest = [p \in Panels |-> 0]
    /\ magnifierLayer = [p \in Panels |-> NoPreview]
    /\ last = FirstOp("init", "none", "none", 0, Unbounded)

InitComparison == NoPanels /\ editor = InitEditor /\ slideshow = InitSlideshow /\ img = InitImage

Outcomes == {"ok", "none", "error"}

NextComparison ==
    \/ \E r \in References : EditorMount(r)
    \/ \E r \in References : SetReference(r)
    \/ EditorUnmount
    \/ \E r \in References, outcome \in Outcomes : Respond(r, outcome)

SpecComparison == InitComparison /\ [][NextComparison]_vars

\* What a response changes when it is applied.
Applied(e) == <<e.error, e.loaded, e.available, e.selected>>

\* C38: a response is applied (the selection handed to onSelect, the available
\* captures stored, the error and loaded states set) only when the editor is
\* mounted and the response was requested for the current reference.
CX_C38 ==
    [][(last'.op = "response" /\ Applied(editor') # Applied(editor))
       => editor.mounted /\ last'.id = editor.reference]_vars

\* ------------------------------------------------------------------ Slideshow
\* The events of the slideshow. The prev and next buttons are rendered with
\* any number of items; a dot is rendered for every item.

\* A click on the prev button.
PrevSlide ==
    /\ slideshow' = _prevSlide(slideshow)
    /\ last' = WidgetOp("prev", "none", 0)
    /\ UNCHANGED <<PanelVars, editor, img>>

\* A click on the next button.
NextSlide ==
    /\ slideshow' = _nextSlide(slideshow)
    /\ last' = WidgetOp("next", "none", 0)
    /\ UNCHANGED <<PanelVars, editor, img>>

\* A click on the dot of the item at index.
DotClick(index) ==
    /\ index < slideshow.items
    /\ slideshow' = [slideshow EXCEPT !.selectedIndex = index]
    /\ last' = WidgetOp("dot", "none", index)
    /\ UNCHANGED <<PanelVars, editor, img>>

\* The autoslide timer fires: it is set whenever the autoslide prop is.
Autoslide ==
    /\ slideshow.autoslide
    /\ slideshow' = _nextSlide(slideshow)
    /\ last' = WidgetOp("timer", "none", 0)
    /\ UNCHANGED <<PanelVars, editor, img>>

\* The parent renders the slideshow with n items: no state is touched.
SetItems(n) ==
    /\ n # slideshow.items
    /\ slideshow' = [slideshow EXCEPT !.items = n]
    /\ last' = WidgetOp("items", "none", n)
    /\ UNCHANGED <<PanelVars, editor, img>>

InitSlides ==
    /\ NoPanels
    /\ editor = InitEditor
    /\ img = InitImage
    /\ \E n \in 0..MaxItems, a \in BOOLEAN :
          slideshow = [InitSlideshow EXCEPT !.items = n, !.autoslide = a]

NextSlides ==
    \/ PrevSlide
    \/ NextSlide
    \/ \E index \in 0..(MaxItems - 1) : DotClick(index)
    \/ Autoslide
    \/ \E n \in 0..MaxItems : SetItems(n)

SpecSlideshow == InitSlides /\ [][NextSlides]_vars

\* selectedIndex is an index of items, and 0 when there is no item.
ValidIndex(s) ==
    IF s.items = 0 THEN s.selectedIndex = 0
    ELSE s.selectedIndex \in 0..(s.items - 1)

\* C39: after every next, prev, dot-click and timer event and every change of
\* the items prop, selectedIndex is an index of items when there are items and
\* 0 when there are none; next and the timer step forward and prev steps back
\* modulo the number of items.
CX_C39 ==
    [][/\ ValidIndex(slideshow')
       /\ (last'.op \in {"next", "timer"} /\ slideshow.items > 0 /\ ValidIndex(slideshow)
             => slideshow'.selectedIndex
                  = (slideshow.selectedIndex + 1) % slideshow.items)
       /\ (last'.op = "prev" /\ slideshow.items > 0 /\ ValidIndex(slideshow)
             => slideshow'.selectedIndex
                  = (slideshow.selectedIndex + slideshow.items - 1) % slideshow.items)]_vars

\* ---------------------------------------------------------------------- Image
\* The events of the image: the error event of the img element and the
\* changes of the url and scale props, each followed by the commits it causes.

\* onError(): the fallback is set unless an error was reported already.
onError(i) == IF ~i.error THEN [i EXCEPT !.src = fallbackSrc, !.error = TRUE] ELSE i

\* The img element reports that its source did not load.
ImageError ==
    /\ img' = ImageSettle(img, onError(img), FALSE)
    /\ last' = WidgetOp("error", "none", 0)
    /\ UNCHANGED <<PanelVars, editor, slideshow>>

\* The parent renders the image with another url.
SetUrl(url) ==
    /\ url # img.url
    /\ img' = ImageSettle(img, [img EXCEPT !.url = url], FALSE)
    /\ last' = WidgetOp("url", url, 0)
    /\ UNCHANGED <<PanelVars, editor, slideshow>>

\* The parent renders the image with another scale.
SetScale(scale) ==
    /\ scale # img.scale
    /\ img' = ImageSettle(img, [img EXCEPT !.scale = scale], FALSE)
    /\ last' = WidgetOp("scale", scale, 0)
    /\ UNCHANGED <<PanelVars, editor, slideshow>>

InitPicture ==
    /\ NoPanels
    /\ editor = InitEditor
    /\ slideshow = InitSlideshow
    /\ \E url \in Urls, scale \in Scales : img = ImageMount(url, scale)

NextPicture ==
    \/ ImageError
    \/ \E url \in Urls : SetUrl(url)
    \/ \E scale \in Scales : SetScale(scale)

SpecImage == InitPicture /\ [][NextPicture]_vars

\* C40: after an error event the rendered source is the fallback; once the
\* fallback is rendered after an error it stays under every further error
\* event and change of url or scale; an error event after an error changes no
\* state.
CX_C40 ==
    [][/\ (last'.op = "error" => img'.src = fallbackSrc)
       /\ (img.error /\ img.src = fallbackSrc => img'.error /\ img'.src = fallbackSrc)
       /\ (last'.op = "error" /\ img.error => img'.src = img.src /\ img'.error)]_vars

====
